---- MODULE Spec2Model ----
(***************************************************************************)
(* Session lifecycle of CMRU-API: the process-wide SessionManager map,     *)
(* the single-flight login of ensureLoggedIn, the bus client's explicit    *)
(* login, and the error classification at the HTTP boundary.               *)
(***************************************************************************)
EXTENDS Integers, Sequences, FiniteSets, TLC

\* ------------------------------------------------------------------ bounds
NumCallers == 2
MaxRuns == 2
MaxTicks == 2
StackLimit == 3

\* the clock is observed every 5 * 60 * 1000 ms, the shorter of the two
\* validity windows (forBusApi), so that the end of each window is observed
TickMs == 300000

Callers == 1..NumCallers
Keys == {"bus", "reg"}

\* ------------------------------------------------------ values and options
Null == <<>>
Some(x) == <<x>>
IsNull(o) == o = <<>>
Get(o) == o[1]

Alice == [username |-> "alice", password |-> "pa"]
Bob == [username |-> "bob", password |-> "pb"]
StoredCreds == {Alice}
ArgCreds == {Bob}
NoArgs == [username |-> "", password |-> ""]
\* cookies: string | string[]
CookieArray(items) == [array |-> TRUE, items |-> items]
CookieString(items) == [array |-> FALSE, items |-> items]
Truthy(cookies) == cookies.array \/ cookies.items # <<>>
SetCookieVals == {CookieArray(<<"SESS=a">>)}
LoginCookieVals == {CookieArray(<<"SESS=b">>)}
OneClickVals == {"undefined"}

\* ------------------------------------------------------------ error values
\* A message is the sequence of its words; includes() is a search for a
\* contiguous run of words, toLowerCase() maps each word.
ToLowerWord(w) ==
    CASE w = "Session" -> "session"
      [] w = "Please" -> "please"
      [] w = "No" -> "no"
      [] w = "Not" -> "not"
      [] w = "Login" -> "login"
      [] w = "Maximum" -> "maximum"
      [] w = "Authentication" -> "authentication"
      [] w = "Network" -> "network"
      [] w = "Empty" -> "empty"
      [] w = "Invalid" -> "invalid"
      [] w = "Unexpected" -> "unexpected"
      [] w = "Failed" -> "failed"
      [] w = "ECONNREFUSED" -> "econnrefused"
      [] w = "An" -> "an"
      [] w = "Set-Cookie" -> "set-cookie"
      [] w = "SET-COOKIE" -> "set-cookie"
      [] w = "Content-Type" -> "content-type"
      [] OTHER -> w

toLowerCase(msg) == [i \in 1..Len(msg) |-> ToLowerWord(msg[i])]

includes(msg, phrase) ==
    \E i \in 0..(Len(msg) - Len(phrase)) :
        \A j \in 1..Len(phrase) : msg[i + j] = phrase[j]

MsgAutoReloginDisabled ==
    <<"Session", "expired", "and", "auto", "re-login", "is", "disabled", ".",
      "Please", "login", "again", ".">>
MsgNoCredentials == <<"No", "credentials", "available", "for", "auto", "re-login">>
MsgNoCookies ==
    <<"No", "authentication", "cookies", "available", ".", "Please", "call",
      "login()", "first", "or", "provide", "cookies", "manually", ".">>
MsgNotLoggedIn == <<"Not", "logged", "in", ".", "Please", "call", "login()", "first", ".">>
MsgStackOverflow == <<"Maximum", "call", "stack", "size", "exceeded">>
MsgLoginEmpty ==
    <<"Login", "failed", ":", "Empty", "response", "(", "invalid",
      "username/password", "or", "session", "issue", ")">>
MsgTimeout == <<"timeout", "of", "30000ms", "exceeded">>

\* The two Thai phrases of the registrar backend, each as one word (the module
\* is ASCII): "please enter the correct ID and password" and "cannot log in
\* because the wrong password was given more than ..."
ThaiEnterCorrectIdPassword == "TH:enter-correct-id-and-password"
ThaiTooManyFailedAttempts == "TH:too-many-failed-attempts"

Error(msg) == [name |-> "Error", message |-> msg, statusCode |-> 0, errorType |-> ""]
RangeError(msg) == [name |-> "RangeError", message |-> msg, statusCode |-> 0, errorType |-> ""]
ApiError(msg, status, type) ==
    [name |-> "ApiError", message |-> msg, statusCode |-> status, errorType |-> type]
NoError == [name |-> "", message |-> <<>>, statusCode |-> 0, errorType |-> ""]
\* a thrown value that is not an instance of Error
NonError(value) == [name |-> "value", message |-> value, statusCode |-> 0, errorType |-> ""]
MsgUnexpectedError == <<"An", "unexpected", "error", "occurred">>

LoginErrors == {Error(MsgLoginEmpty), Error(MsgTimeout)}

\* handleApiError with the session rule tried before the 'login failed' rule
handleApiError_SessionRuleFirst(error) ==
    IF error.name = "ApiError" THEN error
    ELSE IF error.name = "value" THEN ApiError(MsgUnexpectedError, 500, "unknown")
    ELSE
      LET message == error.message
          messageLower == toLowerCase(message)
      IN  IF includes(message, <<ThaiEnterCorrectIdPassword>>)
            THEN ApiError(message, 401, "auth")
          ELSE IF includes(message, <<ThaiTooManyFailedAttempts>>)
            THEN ApiError(message, 429, "auth")
          ELSE IF includes(messageLower, <<"session", "expired">>)
                  \/ includes(messageLower, <<"please", "login", "again">>)
            THEN ApiError(<<"Session", "expired", ".", "Please", "login", "again">>, 401, "session")
          ELSE IF includes(messageLower, <<"invalid", "username", "or", "password">>)
                  \/ includes(messageLower, <<"login", "failed">>)
            THEN ApiError(message, 401, "auth")
          ELSE IF includes(messageLower, <<"no", "authentication", "cookies">>)
                  \/ includes(messageLower, <<"no", "credentials", "available">>)
            THEN ApiError(<<"Authentication", "required", ".", "Please", "login", "first">>, 401, "auth")
          ELSE IF includes(messageLower, <<"timeout">>)
                  \/ includes(messageLower, <<"network">>)
                  \/ includes(messageLower, <<"econnrefused">>)
            THEN ApiError(<<"Network", "error", ".", "Please", "try", "again">>, 503, "network")
          ELSE IF includes(messageLower, <<"unexpected", "response", "status">>)
                  \/ includes(messageLower, <<"failed", "to">>)
            THEN ApiError(message, 502, "server")
          ELSE ApiError(message, 500, "unknown")

\* handleApiError: the ApiError thrown for a caught error
handleApiError(error) ==
    IF error.name = "ApiError" THEN error
    ELSE IF error.name = "value" THEN ApiError(MsgUnexpectedError, 500, "unknown")
    ELSE
      LET message == error.message
          messageLower == toLowerCase(message)
      IN  IF includes(message, <<ThaiEnterCorrectIdPassword>>)
            THEN ApiError(message, 401, "auth")
          ELSE IF includes(message, <<ThaiTooManyFailedAttempts>>)
            THEN ApiError(message, 429, "auth")
          ELSE IF includes(messageLower, <<"invalid", "username", "or", "password">>)
                  \/ includes(messageLower, <<"login", "failed">>)
            THEN ApiError(message, 401, "auth")
          ELSE IF includes(messageLower, <<"session", "expired">>)
                  \/ includes(messageLower, <<"please", "login", "again">>)
            THEN ApiError(<<"Session", "expired", ".", "Please", "login", "again">>, 401, "session")
          ELSE IF includes(messageLower, <<"no", "authentication", "cookies">>)
                  \/ includes(messageLower, <<"no", "credentials", "available">>)
            THEN ApiError(<<"Authentication", "required", ".", "Please", "login", "first">>, 401, "auth")
          ELSE IF includes(messageLower, <<"timeout">>)
                  \/ includes(messageLower, <<"network">>)
                  \/ includes(messageLower, <<"econnrefused">>)
            THEN ApiError(<<"Network", "error", ".", "Please", "try", "again">>, 503, "network")
          ELSE IF includes(messageLower, <<"unexpected", "response", "status">>)
                  \/ includes(messageLower, <<"failed", "to">>)
            THEN ApiError(message, 502, "server")
          ELSE ApiError(message, 500, "unknown")

\* ---------------------------------------------------------- SessionManager
DEFAULT_CONFIG == [validityDuration |-> 10 * 60 * 1000, autoRelogin |-> TRUE, type |-> "bus"]
BusConfig == [type |-> "bus", autoRelogin |-> TRUE, validityDuration |-> 5 * 60 * 1000]
RegConfig == [type |-> "reg", autoRelogin |-> FALSE, validityDuration |-> 10 * 60 * 1000]

\* constructor: this.config = { ...DEFAULT_CONFIG, ...config }
NewSessionManager(sessionKey, config) ==
    [sessionKey |-> sessionKey,
     sessionData |-> Null,
     isLoggingIn |-> FALSE,
     loginPromise |-> 0,
     config |-> [f \in DOMAIN DEFAULT_CONFIG |->
                    IF f \in DOMAIN config THEN config[f] ELSE DEFAULT_CONFIG[f]]]

\* a world is the heap of managers and the static instances map (0: no entry)
getInstance(w, sessionKey, config) ==
    IF w.instances[sessionKey] = 0
      THEN [w EXCEPT !.mgrs = Append(w.mgrs, NewSessionManager(sessionKey, config)),
                     !.instances[sessionKey] = Len(w.mgrs) + 1]
      ELSE w

forBusApi(w, sessionKey) == getInstance(w, sessionKey, BusConfig)
forRegApi(w, sessionKey) == getInstance(w, sessionKey, RegConfig)

setSession(mgr, username, password, cookies, oneClick, t) ==
    [mgr EXCEPT !.sessionData =
        Some([cookies |-> cookies, username |-> username, password |-> password,
              lastValidated |-> t, loginTime |-> t, oneClick |-> oneClick])]

hasSession(mgr) == ~IsNull(mgr.sessionData)

\* a window that still counts the instant it ends
isSessionValid_Inclusive(mgr, t) ==
    IF IsNull(mgr.sessionData) THEN FALSE
    ELSE t - Get(mgr.sessionData).lastValidated <= mgr.config.validityDuration

isSessionValid(mgr, t) ==
    IF IsNull(mgr.sessionData) THEN FALSE
    ELSE LET timeSinceLastValidation == t - Get(mgr.sessionData).lastValidated
         IN  timeSinceLastValidation < mgr.config.validityDuration

\* an update that stores the time elapsed since the last validation
updateLastValidated_Elapsed(mgr, t) ==
    IF ~IsNull(mgr.sessionData)
      THEN [mgr EXCEPT !.sessionData =
              Some([Get(mgr.sessionData) EXCEPT !.lastValidated = t - @])]
      ELSE mgr

updateLastValidated(mgr, t) ==
    IF ~IsNull(mgr.sessionData)
      THEN [mgr EXCEPT !.sessionData = Some([Get(mgr.sessionData) EXCEPT !.lastValidated = t])]
      ELSE mgr

\* sessionData?.cookies || null
getCookies(mgr) ==
    IF ~IsNull(mgr.sessionData) /\ Truthy(Get(mgr.sessionData).cookies)
      THEN Some(Get(mgr.sessionData).cookies)
      ELSE Null

getCredentials(mgr) ==
    IF IsNull(mgr.sessionData) THEN Null
    ELSE Some([username |-> Get(mgr.sessionData).username,
               password |-> Get(mgr.sessionData).password])

\* clearSession and removeInstance call each other; depth is the number of
\* frames on the call stack, and a call beyond StackLimit throws RangeError
\* (threw = TRUE), which no frame catches.
RECURSIVE clearSession(_, _, _)
RECURSIVE removeInstance(_, _, _)

clearSession(w, m, depth) ==
    IF depth > StackLimit THEN [w EXCEPT !.threw = TRUE]
    ELSE LET w1 == [w EXCEPT !.mgrs[m].sessionData = Null,
                             !.mgrs[m].isLoggingIn = FALSE,
                             !.mgrs[m].loginPromise = 0]
         IN  removeInstance(w1, w1.mgrs[m].sessionKey, depth + 1)

removeInstance(w, sessionKey, depth) ==
    IF depth > StackLimit THEN [w EXCEPT !.threw = TRUE]
    ELSE LET instance == w.instances[sessionKey]
         IN  IF instance # 0
               THEN LET w1 == clearSession(w, instance, depth + 1)
                    IN  IF w1.threw THEN w1
                        ELSE [w1 EXCEPT !.instances[sessionKey] = 0]
               ELSE w

\* ------------------------------------------------------------------- state
\* now: Date.now() in ms; mgrs: the SessionManager objects by identity;
\* instances: SessionManager.instances, key -> identity (0: absent);
\* runs: the login runs in flight (a loginFn call of ensureLoggedIn or a
\* getSession call of loginWith) and those just settled; callers: the
\* asynchronous calls in progress or just finished; installs: for each manager
\* whether setSession ever ran on it and, for the session it holds, the time
\* of the setSession that made it (-1: no session) and whether
\* updateLastValidated has touched it since.
VARIABLES now, mgrs, instances, runs, callers, installs

\* fn: the call of a single function (getSession, handleApiError, a request
\* handler, a cookie function) that the specifications of single functions
\* follow: its input, its position and its result; Null in the others.
VARIABLE fn

vars == <<now, mgrs, instances, runs, callers, installs>>

World == [mgrs |-> mgrs, instances |-> instances, threw |-> FALSE]
Mgrs == 1..Len(mgrs)
Runs == 1..MaxRuns

IdleCaller ==
    [pc |-> "idle", op |-> "", mgr |-> 0, run |-> 0, started |-> FALSE, saw |-> {},
     outcome |-> "", error |-> NoError, sent |-> FALSE, fresh |-> FALSE]

NoResult == [ok |-> FALSE, cookies |-> Null, error |-> NoError]

\* state is the state of the run's promise and error what it rejected with;
\* result is what the login function itself returned or threw; explicit says
\* that the credentials were arguments of the call, not the stored ones
FreeRun ==
    [mgr |-> 0, via |-> "", username |-> "", password |-> "", explicit |-> FALSE,
     state |-> "free", result |-> NoResult, error |-> NoError]

NeverInstalled == [ever |-> FALSE, at |-> -1, touched |-> FALSE]
Installed(t) == [ever |-> TRUE, at |-> t, touched |-> FALSE]
Uninstalled(i) == [i EXCEPT !.at = -1, !.touched = FALSE]

\* serve.ts: the bus client and the registrar client are constructed at start
ServerWorld ==
    forRegApi(forBusApi([mgrs |-> <<>>, instances |-> [k \in Keys |-> 0], threw |-> FALSE], "bus"), "reg")

Init ==
    /\ now = 0
    /\ mgrs = ServerWorld.mgrs
    /\ instances = ServerWorld.instances
    /\ runs = [r \in Runs |-> FreeRun]
    /\ callers = [c \in Callers |-> IdleCaller]
    /\ installs = [m \in 1..Len(ServerWorld.mgrs) |-> NeverInstalled]
    /\ fn = Null

\* ensureLoggedIn without the wait for a pending login
ensureLoggedInBranch_NoAwait(mgr, args, t) ==
    IF isSessionValid(mgr, t) THEN "return"
    ELSE IF ~mgr.config.autoRelogin THEN "throwDisabled"
    ELSE IF (args.username = "" \/ args.password = "") /\ IsNull(getCredentials(mgr))
      THEN "throwNoCredentials"
    ELSE "login"

\* ensureLoggedIn without the autoRelogin test
ensureLoggedInBranch_NoAutoReloginTest(mgr, args, t) ==
    IF isSessionValid(mgr, t) THEN "return"
    ELSE IF mgr.isLoggingIn /\ mgr.loginPromise # 0 THEN "await"
    ELSE IF (args.username = "" \/ args.password = "") /\ IsNull(getCredentials(mgr))
      THEN "throwNoCredentials"
    ELSE "login"

\* ensureLoggedIn that looks for a pending login before it looks at the session
ensureLoggedInBranch_PendingFirst(mgr, args, t) ==
    IF mgr.isLoggingIn /\ mgr.loginPromise # 0 THEN "await"
    ELSE IF isSessionValid(mgr, t) THEN "return"
    ELSE IF ~mgr.config.autoRelogin THEN "throwDisabled"
    ELSE IF (args.username = "" \/ args.password = "") /\ IsNull(getCredentials(mgr))
      THEN "throwNoCredentials"
    ELSE "login"

\* ------------------------------------------------------ ensureLoggedIn code
\* the path the synchronous part of ensureLoggedIn takes
ensureLoggedInBranch(mgr, args, t) ==
    IF isSessionValid(mgr, t) THEN "return"
    ELSE IF mgr.isLoggingIn /\ mgr.loginPromise # 0 THEN "await"
    ELSE IF ~mgr.config.autoRelogin THEN "throwDisabled"
    ELSE IF (args.username = "" \/ args.password = "") /\ IsNull(getCredentials(mgr))
      THEN "throwNoCredentials"
    ELSE "login"

NoneGiven(args) == args.username = "" \/ args.password = ""

finalCredentials(mgr, args) ==
    IF NoneGiven(args) THEN Get(getCredentials(mgr)) ELSE args

\* results of a login function: resolved with cookies, or rejected
Resolved(cookies) == [ok |-> TRUE, cookies |-> Some(cookies), error |-> NoError]
ResolvedNoCookie == [ok |-> TRUE, cookies |-> Null, error |-> NoError]
Rejected(error) == [ok |-> FALSE, cookies |-> Null, error |-> error]
LoginFnResults == {Resolved(cv) : cv \in LoginCookieVals} \cup {Rejected(e) : e \in LoginErrors}
GetSessionResults == LoginFnResults \cup {ResolvedNoCookie}

\* a loginPromise that on success refreshes the session it finds instead of
\* installing the one that loginFn returned
loginPromiseBody_KeepsOldSession(w, m, run, res, t) ==
    LET tried == IF res.ok
                   THEN [w EXCEPT !.mgrs[m] = updateLastValidated(@, t)]
                   ELSE clearSession(w, m, 1)
        thrown == IF res.ok THEN NoError
                  ELSE IF tried.threw THEN RangeError(MsgStackOverflow)
                  ELSE res.error
        final == [tried EXCEPT !.mgrs[m].isLoggingIn = FALSE, !.mgrs[m].loginPromise = 0]
    IN  [w |-> final, ok |-> res.ok, error |-> thrown]

\* the body of loginPromise once loginFn has settled with res: try / catch /
\* finally. The result is the world after it and how the promise settles.
loginPromiseBody(w, m, run, res, t) ==
    LET tried == IF res.ok
                   THEN [w EXCEPT !.mgrs[m] =
                            setSession(@, run.username, run.password, Get(res.cookies), "undefined", t)]
                   ELSE clearSession(w, m, 1)
        thrown == IF res.ok THEN NoError
                  ELSE IF tried.threw THEN RangeError(MsgStackOverflow)
                  ELSE res.error
        final == [tried EXCEPT !.mgrs[m].isLoggingIn = FALSE, !.mgrs[m].loginPromise = 0]
    IN  [w |-> final, ok |-> res.ok, error |-> thrown]

\* ----------------------------------------------------------------- callers
InFlight(m) == {r \in Runs : runs[r].mgr = m /\ runs[r].state = "running"}
FreeRuns == {r \in Runs : runs[r].state = "free"}
NewRun == CHOOSE r \in FreeRuns : \A q \in FreeRuns : r <= q

NoLoginYet(m) == ~installs[m].ever /\ InFlight(m) = {}

\* saw and fresh are what the call finds on entry: the login runs of
\* ensureLoggedIn in flight on its manager, and (for a data request) whether no
\* session was ever installed and no login is in flight
StartCall(op, m) ==
    [IdleCaller EXCEPT !.op = op, !.mgr = m,
        !.saw = IF op = "ensureLoggedIn"
                  THEN {r \in InFlight(m) : runs[r].via = "ensureLoggedIn"} ELSE {},
        !.fresh = op \in {"busAvailable", "regStudent"} /\ NoLoginYet(m)]

Finish(cl, outcome, error) ==
    [cl EXCEPT !.pc = "done", !.outcome = outcome, !.error = error]

\* what a call does once its ensureLoggedIn has returned or thrown; mgr is
\* the caller's manager at that moment
Continue(cl, mgr, outcome, error) ==
    IF cl.op \in {"busAvailable", "busSchedule"}
      THEN IF outcome = "rejected" THEN Finish(cl, "rejected", handleApiError(error))
           ELSE IF IsNull(getCookies(mgr))
             THEN Finish(cl, "rejected", handleApiError(Error(MsgNoCookies)))
           ELSE [cl EXCEPT !.pc = "awaitBackend", !.sent = TRUE]
      ELSE Finish(cl, outcome, error)

\* a finished call's result is delivered to its awaiter (a microtask) before
\* the event loop runs any other task
Quiet == \A c \in Callers : callers[c].pc # "done"

\* calls are interchangeable: a new call takes the lowest idle record
CanCall(c) ==
    /\ Quiet
    /\ callers[c].pc = "idle"
    /\ \A d \in Callers : callers[d].pc = "idle" => c <= d

\* ----------------------------------------------------------------- actions
Tick ==
    /\ Quiet
    /\ now + TickMs <= MaxTicks * TickMs
    /\ now' = now + TickMs
    /\ UNCHANGED <<mgrs, instances, runs, callers, installs>>
    /\ UNCHANGED fn

\* a setSession that writes one session object shared by every manager
SetSession_Shared(m, cred, cookies, oneClick) ==
    /\ Quiet
    /\ mgrs' = [k \in Mgrs |->
                  setSession(mgrs[k], cred.username, cred.password, cookies, oneClick, now)]
    /\ installs' = [installs EXCEPT ![m] = Installed(now)]
    /\ UNCHANGED <<now, instances, runs, callers>>
    /\ UNCHANGED fn

SetSession(m, cred, cookies, oneClick) ==
    /\ Quiet
    /\ mgrs' = [mgrs EXCEPT ![m] = setSession(@, cred.username, cred.password, cookies, oneClick, now)]
    /\ installs' = [installs EXCEPT ![m] = Installed(now)]
    /\ UNCHANGED <<now, instances, runs, callers>>
    /\ UNCHANGED fn

\* validateSession of the bus client is the one caller of updateLastValidated
UpdateLastValidated(m) ==
    /\ Quiet
    /\ mgrs[m].config.type = "bus"
    /\ mgrs' = [mgrs EXCEPT ![m] = updateLastValidated(@, now)]
    /\ installs' = [installs EXCEPT ![m].touched = @ \/ hasSession(mgrs[m])]
    /\ UNCHANGED <<now, instances, runs, callers>>
    /\ UNCHANGED fn

ClearSession(c, m) ==
    /\ CanCall(c)
    /\ LET w == clearSession(World, m, 1)
       IN  /\ mgrs' = w.mgrs
           /\ instances' = w.instances
           /\ callers' = [callers EXCEPT ![c] =
                 IF w.threw
                   THEN Finish(StartCall("clearSession", m), "rejected", RangeError(MsgStackOverflow))
                   ELSE Finish(StartCall("clearSession", m), "resolved", NoError)]
    /\ installs' = [installs EXCEPT ![m] = Uninstalled(@)]
    /\ UNCHANGED <<now, runs>>
    /\ UNCHANGED fn

Ensure(c, m, args, op) ==
    /\ CanCall(c)
    /\ LET branch == ensureLoggedInBranch(mgrs[m], args, now)
           cl == StartCall(op, m)
       IN  CASE branch = "return" ->
                  /\ callers' = [callers EXCEPT ![c] = Continue(cl, mgrs[m], "resolved", NoError)]
                  /\ UNCHANGED <<mgrs, runs>>
             [] branch = "await" ->
                  /\ callers' = [callers EXCEPT ![c] =
                        [cl EXCEPT !.pc = "awaitLogin", !.run = mgrs[m].loginPromise]]
                  /\ UNCHANGED <<mgrs, runs>>
             [] branch = "throwDisabled" ->
                  /\ callers' = [callers EXCEPT ![c] =
                        Continue(cl, mgrs[m], "rejected", Error(MsgAutoReloginDisabled))]
                  /\ UNCHANGED <<mgrs, runs>>
             [] branch = "throwNoCredentials" ->
                  /\ callers' = [callers EXCEPT ![c] =
                        Continue(cl, mgrs[m], "rejected", Error(MsgNoCredentials))]
                  /\ UNCHANGED <<mgrs, runs>>
             [] branch = "login" ->
                  /\ FreeRuns # {}
                  /\ LET final == finalCredentials(mgrs[m], args)
                     IN  runs' = [runs EXCEPT ![NewRun] =
                            [FreeRun EXCEPT !.mgr = m, !.via = "ensureLoggedIn",
                                            !.username = final.username,
                                            !.password = final.password,
                                            !.explicit = ~NoneGiven(args),
                                            !.state = "running"]]
                  /\ mgrs' = [mgrs EXCEPT ![m].isLoggingIn = TRUE, ![m].loginPromise = NewRun]
                  /\ callers' = [callers EXCEPT ![c] =
                        [cl EXCEPT !.pc = "awaitLogin", !.run = NewRun, !.started = TRUE]]
    /\ UNCHANGED <<now, instances, installs>>
    /\ UNCHANGED fn

EnsureLoggedIn(c, m, args) == Ensure(c, m, args, "ensureLoggedIn")

\* GET /bus/available: getAvailableBuses() without cookies, then handleApiError
BusGetAvailable(c, m) ==
    /\ mgrs[m].config.type = "bus"
    /\ Ensure(c, m, NoArgs, "busAvailable")

\* GET /reg/student: getStudentInfoRaw(), then handleApiError
RegGetStudent(c, m) ==
    /\ CanCall(c)
    /\ mgrs[m].config.type = "reg"
    /\ LET cl == StartCall("regStudent", m)
       IN  callers' = [callers EXCEPT ![c] =
              IF IsNull(getCookies(mgrs[m]))
                THEN Finish(cl, "rejected", handleApiError(Error(MsgNotLoggedIn)))
                ELSE [cl EXCEPT !.pc = "awaitBackend", !.sent = TRUE]]
    /\ UNCHANGED <<now, mgrs, instances, runs, installs>>
    /\ UNCHANGED fn

BackendReply(c) ==
    /\ Quiet
    /\ callers[c].pc = "awaitBackend"
    /\ callers' = [callers EXCEPT ![c] = Finish(@, "resolved", NoError)]
    /\ UNCHANGED <<now, mgrs, instances, runs, installs>>
    /\ UNCHANGED fn

\* loginWith: getSession() is started at once, outside ensureLoggedIn
BusLoginWith(c, m, cred) ==
    /\ CanCall(c)
    /\ mgrs[m].config.type = "bus"
    /\ FreeRuns # {}
    /\ runs' = [runs EXCEPT ![NewRun] =
          [FreeRun EXCEPT !.mgr = m, !.via = "loginWith", !.username = cred.username,
                          !.password = cred.password, !.explicit = TRUE,
                          !.state = "running"]]
    /\ callers' = [callers EXCEPT ![c] =
          [StartCall("loginWith", m) EXCEPT !.pc = "awaitLogin", !.run = NewRun, !.started = TRUE]]
    /\ UNCHANGED <<now, mgrs, instances, installs>>
    /\ UNCHANGED fn

\* the loginFn of an ensureLoggedIn run settles; the body of loginPromise and
\* the continuations of every call awaiting it run before anything else
LoginFnSettle(r, res) ==
    /\ Quiet
    /\ runs[r].state = "running"
    /\ runs[r].via = "ensureLoggedIn"
    /\ LET body == loginPromiseBody(World, runs[r].mgr, runs[r], res, now)
           outcome == IF body.ok THEN "resolved" ELSE "rejected"
       IN  /\ mgrs' = body.w.mgrs
           /\ instances' = body.w.instances
           /\ runs' = [runs EXCEPT ![r].state = outcome, ![r].result = res,
                                   ![r].error = body.error]
           /\ callers' = [c \in Callers |->
                 IF callers[c].pc = "awaitLogin" /\ callers[c].run = r
                   THEN Continue(callers[c], body.w.mgrs[callers[c].mgr], outcome, body.error)
                   ELSE callers[c]]
           /\ installs' = [installs EXCEPT ![runs[r].mgr] =
                                IF body.ok THEN Installed(now) ELSE Uninstalled(@)]
    /\ UNCHANGED now
    /\ UNCHANGED fn

\* the getSession of a loginWith run settles; loginWith installs the session
\* when the response carries set-cookie
GetSessionSettle(r, res) ==
    /\ Quiet
    /\ runs[r].state = "running"
    /\ runs[r].via = "loginWith"
    /\ LET m == runs[r].mgr
           outcome == IF res.ok THEN "resolved" ELSE "rejected"
           install == res.ok /\ ~IsNull(res.cookies)
       IN  /\ mgrs' = IF install
                        THEN [mgrs EXCEPT ![m] =
                                setSession(@, runs[r].username, runs[r].password,
                                           Get(res.cookies), "undefined", now)]
                        ELSE mgrs
           /\ runs' = [runs EXCEPT ![r].state = outcome, ![r].result = res,
                                   ![r].error = res.error]
           /\ callers' = [c \in Callers |->
                 IF callers[c].pc = "awaitLogin" /\ callers[c].run = r
                   THEN Finish(callers[c], outcome, res.error)
                   ELSE callers[c]]
           /\ installs' = IF install THEN [installs EXCEPT ![m] = Installed(now)] ELSE installs
    /\ UNCHANGED <<now, instances>>
    /\ UNCHANGED fn

\* the result of a finished call is observed and its record dropped; the
\* records of settled runs go with the last of them
Return(c) ==
    /\ callers[c].pc = "done"
    /\ \A d \in Callers : callers[d].pc = "done" => c <= d
    /\ callers' = [callers EXCEPT ![c] = IdleCaller]
    /\ runs' = IF \E d \in Callers \ {c} : callers[d].pc = "done"
                 THEN runs
                 ELSE [r \in Runs |-> IF runs[r].state \in {"resolved", "rejected"}
                                        THEN FreeRun ELSE runs[r]]
    /\ UNCHANGED <<now, mgrs, instances, installs>>
    /\ UNCHANGED fn

\* the calls on a SessionManager
Next ==
    \/ \E c \in Callers : Return(c)
    \/ Tick
    \/ \E m \in Mgrs, cred \in StoredCreds, cookies \in SetCookieVals, oc \in OneClickVals :
          SetSession(m, cred, cookies, oc)
    \/ \E m \in Mgrs : UpdateLastValidated(m)
    \/ \E c \in Callers, m \in Mgrs : ClearSession(c, m)
    \/ \E c \in Callers, m \in Mgrs, args \in ArgCreds \cup {NoArgs} : EnsureLoggedIn(c, m, args)
    \/ \E r \in Runs, res \in LoginFnResults : LoginFnSettle(r, res)

Spec == Init /\ [][Next]_vars

\* the routes of the HTTP server: logins and data requests
ApiNext ==
    \/ \E c \in Callers : Return(c)
    \/ Tick
    \/ \E m \in Mgrs, cred \in StoredCreds, cookies \in SetCookieVals, oc \in OneClickVals :
          mgrs[m].config.type = "reg" /\ SetSession(m, cred, cookies, oc)
    \/ \E c \in Callers, m \in Mgrs : BusGetAvailable(c, m)
    \/ \E c \in Callers, m \in Mgrs : RegGetStudent(c, m)
    \/ \E c \in Callers : BackendReply(c)
    \/ \E c \in Callers, m \in Mgrs, cred \in ArgCreds : BusLoginWith(c, m, cred)
    \/ \E r \in Runs, res \in LoginFnResults : LoginFnSettle(r, res)
    \/ \E r \in Runs, res \in GetSessionResults : GetSessionSettle(r, res)

SpecApi == Init /\ [][ApiNext]_vars

\* calls of ensureLoggedIn alone, on sessions that setSession and
\* updateLastValidated prepare
EnsureNext ==
    \/ \E c \in Callers : Return(c)
    \/ Tick
    \/ \E m \in Mgrs, cred \in StoredCreds, cookies \in SetCookieVals, oc \in OneClickVals :
          SetSession(m, cred, cookies, oc)
    \/ \E m \in Mgrs : UpdateLastValidated(m)
    \/ \E c \in Callers, m \in Mgrs, args \in ArgCreds \cup {NoArgs} : EnsureLoggedIn(c, m, args)
    \/ \E r \in Runs, res \in LoginFnResults : LoginFnSettle(r, res)

SpecEnsure == Init /\ [][EnsureNext]_vars

\* ------------------------------------------------------------------ claims
Done(c) == callers[c].pc = "done"
SessionOf(m) == mgrs[m].sessionData
Pending(m) == mgrs[m].isLoggingIn /\ mgrs[m].loginPromise # 0
Cleared(m) == IsNull(SessionOf(m)) /\ ~mgrs[m].isLoggingIn /\ mgrs[m].loginPromise = 0

\* a step in which call c enters ensureLoggedIn on manager m
EnsureCall(c, m) ==
    /\ callers[c].pc = "idle"
    /\ callers'[c].op = "ensureLoggedIn"
    /\ callers'[c].mgr = m

\* C1: calls of ensureLoggedIn on one key share one login: never are two
\* logins in flight on a key, a call that finds a login in flight starts none
\* and awaits the one it found, and the calls that awaited one login all
\* finish with the same outcome and the same error.
C1_SingleFlight ==
    /\ \A m \in Mgrs : Cardinality(InFlight(m)) <= 1
    /\ \A c \in Callers :
          (callers[c].op = "ensureLoggedIn" /\ callers[c].saw # {})
          => /\ ~callers[c].started
             /\ callers[c].run # 0 => callers[c].run \in callers[c].saw
    /\ \A c, d \in Callers :
          (Done(c) /\ Done(d) /\ callers[c].run # 0 /\ callers[c].run = callers[d].run)
          => /\ callers[c].outcome = callers[d].outcome
             /\ callers[c].error = callers[d].error

C1_Witness ==
    \E c, d \in Callers :
        /\ Done(c) /\ Done(d)
        /\ callers[c].op = "ensureLoggedIn" /\ callers[d].op = "ensureLoggedIn"
        /\ callers[c].started
        /\ ~callers[d].started
        /\ callers[d].saw = {callers[c].run}
        /\ callers[d].run = callers[c].run
        /\ callers[d].outcome = "rejected"

\* C2: on every session key at most one run of the login protocol is in
\* flight, whatever the interleaving of login()/loginWith(), ensureLoggedIn,
\* setSession, the clock and clearSession.
C2_AtMostOneLoginInFlight == \A m \in Mgrs : Cardinality(InFlight(m)) <= 1

\* C3: when the login function of an ensureLoggedIn run has failed, the
\* session is cleared and every call that awaited the run is rejected with
\* the error the login function raised.
C3_RejectedWithUnderlyingError ==
    \A c \in Callers :
        (/\ Done(c)
         /\ callers[c].op = "ensureLoggedIn"
         /\ callers[c].run # 0
         /\ ~runs[callers[c].run].result.ok)
        => /\ Cleared(callers[c].mgr)
           /\ callers[c].outcome = "rejected"
           /\ callers[c].error = runs[callers[c].run].result.error

\* C4: clearSession on a registered manager returns, and then the session
\* has no data, no login is pending and the key is gone from the instance map.
C4_ClearSessionReturnsAndUnregisters ==
    \A c \in Callers :
        (Done(c) /\ callers[c].op = "clearSession")
        => /\ callers[c].outcome = "resolved"
           /\ Cleared(callers[c].mgr)
           /\ instances[mgrs[callers[c].mgr].sessionKey] = 0

\* C5: a manager without a session is never valid, and a session that
\* setSession installed at t0 and that updateLastValidated has not touched is
\* valid exactly while now < t0 + validityDuration.
C5_ValidityWindow ==
    \A m \in Mgrs :
        /\ IsNull(SessionOf(m)) => ~isSessionValid(mgrs[m], now)
        /\ (~IsNull(SessionOf(m)) /\ ~installs[m].touched)
           => (isSessionValid(mgrs[m], now)
               <=> now < installs[m].at + mgrs[m].config.validityDuration)

C5_Witness ==
    \E m \in Mgrs :
        /\ ~IsNull(SessionOf(m))
        /\ ~installs[m].touched
        /\ now >= installs[m].at + mgrs[m].config.validityDuration
        /\ ~isSessionValid(mgrs[m], now)

\* C6: a call of ensureLoggedIn on a manager with autoRelogin off, no valid
\* session and no login pending is rejected at once with "Session expired and
\* auto re-login is disabled. Please login again." (which handleApiError
\* classes as session, 401), starts no login and leaves the manager as it was.
C6_AutoReloginDisabled ==
    [][\A c \in Callers, m \in Mgrs :
          (/\ EnsureCall(c, m)
           /\ ~mgrs[m].config.autoRelogin
           /\ ~isSessionValid(mgrs[m], now)
           /\ ~Pending(m))
          => /\ callers'[c].pc = "done"
             /\ callers'[c].outcome = "rejected"
             /\ callers'[c].error = Error(MsgAutoReloginDisabled)
             /\ handleApiError(callers'[c].error).errorType = "session"
             /\ handleApiError(callers'[c].error).statusCode = 401
             /\ ~callers'[c].started
             /\ runs' = runs
             /\ mgrs'[m] = mgrs[m]]_vars

C6_Witness ==
    \E c \in Callers :
        /\ Done(c)
        /\ callers[c].op = "ensureLoggedIn"
        /\ ~mgrs[callers[c].mgr].config.autoRelogin
        /\ ~IsNull(SessionOf(callers[c].mgr))
        /\ ~isSessionValid(mgrs[callers[c].mgr], now)
        /\ callers[c].error = Error(MsgAutoReloginDisabled)

\* C7: a call of ensureLoggedIn on a lapsed session with autoRelogin on,
\* stored credentials and no login pending starts exactly one login, with the
\* stored credentials unless it brought its own; and when the login a call
\* started succeeds, the session holds the cookies the login returned
\* and the credentials of the login, lastValidated is the time of completion
\* and the session is valid.
C7_ReloginInstallsSession ==
    [][/\ \A c \in Callers, m \in Mgrs :
             (/\ EnsureCall(c, m)
              /\ ~IsNull(SessionOf(m))
              /\ ~isSessionValid(mgrs[m], now)
              /\ mgrs[m].config.autoRelogin
              /\ ~Pending(m))
             => \E r \in Runs :
                   /\ runs[r].state = "free"
                   /\ runs'[r].state = "running"
                   /\ runs'[r].mgr = m
                   /\ ~runs'[r].explicit
                      => /\ runs'[r].username = Get(SessionOf(m)).username
                         /\ runs'[r].password = Get(SessionOf(m)).password
                   /\ \A q \in Runs \ {r} : runs'[q] = runs[q]
                   /\ callers'[c].pc = "awaitLogin"
                   /\ callers'[c].run = r
       /\ \A c \in Callers :
             (/\ callers[c].pc = "awaitLogin"
              /\ callers[c].op = "ensureLoggedIn"
              /\ callers[c].started
              /\ callers'[c].pc = "done"
              /\ callers'[c].outcome = "resolved")
             => LET m == callers[c].mgr
                    r == callers[c].run
                IN  /\ ~IsNull(mgrs'[m].sessionData)
                    /\ ~IsNull(runs'[r].result.cookies)
                    /\ Get(mgrs'[m].sessionData).cookies = Get(runs'[r].result.cookies)
                    /\ Get(mgrs'[m].sessionData).username = runs[r].username
                    /\ Get(mgrs'[m].sessionData).password = runs[r].password
                    /\ Get(mgrs'[m].sessionData).lastValidated = now'
                    /\ isSessionValid(mgrs'[m], now')]_vars

C7_Witness ==
    \E c \in Callers :
        /\ Done(c)
        /\ callers[c].op = "ensureLoggedIn"
        /\ callers[c].started
        /\ ~runs[callers[c].run].explicit
        /\ callers[c].outcome = "resolved"
        /\ now > 0
        /\ ~IsNull(SessionOf(callers[c].mgr))
        /\ Get(SessionOf(callers[c].mgr)).cookies = Get(runs[callers[c].run].result.cookies)
        /\ Get(SessionOf(callers[c].mgr)).username = runs[callers[c].run].username
        /\ Get(SessionOf(callers[c].mgr)).lastValidated = now

\* C8: a call of ensureLoggedIn on a manager whose session is valid returns
\* at once, starts no login and awaits none, and leaves the session data,
\* lastValidated and the pending-login slot as they were.
C8_ValidSessionReturns ==
    [][\A c \in Callers, m \in Mgrs :
          (EnsureCall(c, m) /\ isSessionValid(mgrs[m], now))
          => /\ callers'[c].pc = "done"
             /\ callers'[c].outcome = "resolved"
             /\ ~callers'[c].started
             /\ callers'[c].run = 0
             /\ runs' = runs
             /\ mgrs'[m] = mgrs[m]]_vars

C8_Witness ==
    \E c \in Callers :
        /\ Done(c)
        /\ callers[c].op = "ensureLoggedIn"
        /\ callers[c].outcome = "resolved"
        /\ callers[c].run = 0
        /\ isSessionValid(mgrs[callers[c].mgr], now)
        /\ Pending(callers[c].mgr)

\* C9: a bus or registrar data request made when no login has ever succeeded
\* for that backend is rejected with an auth error (401) and nothing is sent
\* to the backend.
C9_NoLoginMeansAuth401 ==
    \A c \in Callers :
        (callers[c].fresh /\ callers[c].pc \in {"done", "awaitBackend"})
        => /\ callers[c].pc = "done"
           /\ callers[c].outcome = "rejected"
           /\ callers[c].error.errorType = "auth"
           /\ callers[c].error.statusCode = 401
           /\ ~callers[c].sent

\* what the holder of a key can see of its manager
KeyView(m) ==
    <<mgrs[m].sessionData, isSessionValid(mgrs[m], now), mgrs[m].isLoggingIn,
      mgrs[m].loginPromise, InFlight(m), instances[mgrs[m].sessionKey]>>

\* a step of an operation on manager m: setSession or updateLastValidated,
\* a call of clearSession or ensureLoggedIn, or the settling of a login
OperationOn(m) ==
    \/ /\ callers' = callers
       /\ \/ \E cred \in StoredCreds, cookies \in SetCookieVals, oc \in OneClickVals :
                SetSession(m, cred, cookies, oc)
          \/ UpdateLastValidated(m)
    \/ \E c \in Callers :
          /\ callers[c].pc = "idle"
          /\ callers'[c].mgr = m
          /\ \/ ClearSession(c, m)
             \/ \E args \in ArgCreds \cup {NoArgs} : EnsureLoggedIn(c, m, args)
    \/ \E r \in Runs :
          /\ runs[r].mgr = m
          /\ runs'[r].state # runs[r].state
          /\ \E res \in LoginFnResults : LoginFnSettle(r, res)

\* C10: setSession, updateLastValidated, ensureLoggedIn (with the login it
\* starts) and clearSession on one key leave the session data, the validity,
\* the pending login and the registration of every other key unchanged.
C10_KeysIndependent ==
    [][\A m \in Mgrs : \A k \in Mgrs \ {m} :
          KeyView(k)' = KeyView(k) \/ ~OperationOn(m)]_vars

C10_Witness ==
    \E c \in Callers, k \in Mgrs :
        /\ Done(c)
        /\ callers[c].op = "clearSession"
        /\ k # callers[c].mgr
        /\ IsNull(SessionOf(callers[c].mgr))
        /\ isSessionValid(mgrs[k], now)

\* ---------------------------------------------------- getSession (bus login)
\* session variables of a server that is left alone
vars0 == <<now, mgrs, instances, runs, callers, installs>>

MaxRetries == 3

\* bodies of the check endpoint, trimmed: empty, the codes, and other replies
BodyWrongPassword == <<"0">>
BodySessionTimeout == <<"session", "timeout">>
Bodies == {<<>>, <<"1">>, <<"5">>, <<"8">>, BodyWrongPassword, BodySessionTimeout}

MsgNetworkError == <<"Network", "Error">>
TransportErrors == {Error(MsgTimeout), Error(MsgNetworkError)}

\* an HTTP call answers with a body or fails with a transport error
Reply(body) == [ok |-> TRUE, body |-> body, error |-> NoError]
Fails(error) == [ok |-> FALSE, body |-> <<>>, error |-> error]
HttpOutcomes == {Reply(b) : b \in Bodies} \cup {Fails(e) : e \in TransportErrors}

interpretLoginResponse(text) ==
    IF text = <<>> THEN "EMPTY"
    ELSE IF text \in {<<"1">>, <<"2">>, <<"3">>, <<"5">>, <<"8">>} THEN text[1]
    ELSE "OTHER"

\* JSON.stringify of a string: the text between two quotes
JSONstringify(text) == <<"\"">> \o text \o <<"\"">>

MsgBlocked5 == <<"Login", "blocked", "(", "code", "5", ")", ":", "TH:update-personnel-data">>
MsgBlocked8 == <<"Login", "blocked", "(", "code", "8", ")", ":", "TH:mae-rim-students-only">>
MsgUnexpected(text) ==
    <<"Login", "failed", ":", "Unexpected", "response", "-">> \o JSONstringify(text)

\* the error getSession throws for a code that is not 1, 2 or 3
loginCodeError(code, text) ==
    IF code = "5" THEN Error(MsgBlocked5)
    ELSE IF code = "8" THEN Error(MsgBlocked8)
    ELSE IF code = "EMPTY" THEN Error(MsgLoginEmpty)
    ELSE Error(MsgUnexpected(text))

\* fn in SpecGetSession: the call getSession(username, password, userType,
\* retries). log has one entry for each attempt that threw: the error and
\* whether a transport call or the reply's code raised it; waits are the
\* delays of setTimeout so far.
GetSessionCall(retries) ==
    [retries |-> retries, attempt |-> 1, pc |-> "post", code |-> "EMPTY", text |-> <<>>,
     error |-> NoError, log |-> <<>>, waits |-> <<>>]

\* the outer catch of attempt fn.attempt, with the error thrown in it
gsCatch(f, error, kind) ==
    LET logged == [f EXCEPT !.log = Append(@, [error |-> error, kind |-> kind])]
    IN  IF includes(error.message, <<"timeout">>) /\ f.attempt < f.retries
          THEN [logged EXCEPT !.pc = "wait", !.waits = Append(@, 1000 * f.attempt)]
          ELSE [logged EXCEPT !.pc = "threw", !.error = error]

\* the end of an attempt once a reply has set code and text
gsDecide(f) ==
    IF f.code \in {"1", "2", "3"} THEN [f EXCEPT !.pc = "returned"]
    ELSE gsCatch(f, loginCodeError(f.code, f.text), "semantic")

InitGetSession ==
    /\ now = 0
    /\ mgrs = ServerWorld.mgrs
    /\ instances = ServerWorld.instances
    /\ runs = [r \in Runs |-> FreeRun]
    /\ callers = [c \in Callers |-> IdleCaller]
    /\ installs = [m \in 1..Len(ServerWorld.mgrs) |-> NeverInstalled]
    /\ fn \in {GetSessionCall(n) : n \in 1..MaxRetries}

\* client.post(checkUrl): a failure is logged by console.warn and swallowed
GsPost(out) ==
    /\ fn.pc = "post"
    /\ fn' = IF out.ok
               THEN LET f == [fn EXCEPT !.text = out.body,
                                        !.code = interpretLoginResponse(out.body)]
                    IN  IF f.code \in {"EMPTY", "OTHER"} THEN [f EXCEPT !.pc = "get"]
                        ELSE gsDecide(f)
               ELSE [fn EXCEPT !.text = <<>>, !.code = "EMPTY", !.pc = "get"]
    /\ UNCHANGED vars0

\* client.get(checkUrl?data=...), made when the POST left EMPTY or OTHER
GsGet(out) ==
    /\ fn.pc = "get"
    /\ fn' = IF out.ok
               THEN gsDecide([fn EXCEPT !.text = out.body,
                                        !.code = interpretLoginResponse(out.body)])
               ELSE gsCatch(fn, out.error, "transport")
    /\ UNCHANGED vars0

\* setTimeout(resolve, 1000 * attempt) fires; continue with attempt + 1
GsWait ==
    /\ fn.pc = "wait"
    /\ fn' = [fn EXCEPT !.attempt = @ + 1, !.pc = "post", !.code = "EMPTY", !.text = <<>>]
    /\ UNCHANGED vars0

GetSessionNext ==
    \/ \E out \in HttpOutcomes : GsPost(out)
    \/ \E out \in HttpOutcomes : GsGet(out)
    \/ GsWait

SpecGetSession == InitGetSession /\ [][GetSessionNext]_<<vars0, fn>>

\* C11: an attempt that ends in a failure raised by the reply of the check
\* endpoint (code 5 or 8, an empty body, any other body) is the last attempt:
\* getSession throws that failure and does not wait or try again.
C11_NoRetryOnSemanticFailure ==
    \A i \in 1..Len(fn.log) :
        fn.log[i].kind = "semantic"
        => /\ i = Len(fn.log)
           /\ fn.pc = "threw"
           /\ fn.error = fn.log[i].error

\* C12: getSession makes at most retries attempts, waits k*1000 ms after
\* attempt k, ends with the timeout error (network, 503 at the boundary) when
\* every attempt timed out, and an attempt that fails with anything but a
\* transport timeout is the last one, its error being thrown.
C12_TimeoutRetriedOthersPropagate ==
    /\ fn.attempt <= fn.retries
    /\ Len(fn.waits) = IF fn.pc = "wait" THEN fn.attempt ELSE fn.attempt - 1
    /\ \A k \in 1..Len(fn.waits) : fn.waits[k] = k * 1000
    /\ (fn.pc = "threw" /\ \A i \in 1..Len(fn.log) : fn.log[i].error = Error(MsgTimeout))
       => /\ fn.error = Error(MsgTimeout)
          /\ handleApiError(fn.error).errorType = "network"
          /\ handleApiError(fn.error).statusCode = 503
    /\ \A i \in 1..Len(fn.log) :
          fn.log[i].error # Error(MsgTimeout)
          => /\ i = Len(fn.log)
             /\ fn.pc = "threw"
             /\ fn.error = fn.log[i].error

\* ------------------------------------------------- handleApiError (boundary)
MaxChunks == 2

\* pieces of error messages: the phrases the rules look for, in the spelling
\* errors carry them, and a word no rule looks for
Chunks ==
    << <<ThaiEnterCorrectIdPassword>>, <<ThaiTooManyFailedAttempts>>,
       <<"Invalid", "username", "or", "password">>, <<"Login", "failed">>,
       <<"Session", "expired">>, <<"Please", "login", "again">>,
       <<"No", "authentication", "cookies">>, <<"No", "credentials", "available">>,
       <<"timeout">>, <<"Network">>, <<"ECONNREFUSED">>,
       <<"Unexpected", "response", "status">>, <<"Failed", "to">>, <<"oops">> >>

RECURSIVE Concat(_)
Concat(ix) == IF ix = <<>> THEN <<>> ELSE Chunks[Head(ix)] \o Concat(Tail(ix))

ErrorMessages ==
    {Concat(ix) : ix \in UNION {[1..n -> 1..Len(Chunks)] : n \in 0..MaxChunks}}

\* what a route handler can catch: an Error, an ApiError of the routes, or a
\* value that is no Error
CaughtErrors ==
    {Error(m) : m \in ErrorMessages}
    \cup {ApiError(Chunks[i], 400, "validation") : i \in 1..Len(Chunks)}
    \cup {ApiError(Chunks[i], 401, "auth") : i \in 1..Len(Chunks)}
    \cup {NonError(<<"oops">>)}

InitClassify ==
    /\ now = 0
    /\ mgrs = ServerWorld.mgrs
    /\ instances = ServerWorld.instances
    /\ runs = [r \in Runs |-> FreeRun]
    /\ callers = [c \in Callers |-> IdleCaller]
    /\ installs = [m \in 1..Len(ServerWorld.mgrs) |-> NeverInstalled]
    /\ fn \in {[pc |-> "caught", err |-> e, cls |-> NoError, again |-> NoError] : e \in CaughtErrors}

\* catch (error) { handleApiError(error) }
Classify ==
    /\ fn.pc = "caught"
    /\ fn' = [fn EXCEPT !.pc = "classified", !.cls = handleApiError(fn.err)]
    /\ UNCHANGED vars0

\* an error with the message of the classified one is classified
Reclassify ==
    /\ fn.pc = "classified"
    /\ fn' = [fn EXCEPT !.pc = "reclassified", !.again = handleApiError(Error(fn.cls.message))]
    /\ UNCHANGED vars0

ClassifyNext == Classify \/ Reclassify

SpecClassify == InitClassify /\ [][ClassifyNext]_<<vars0, fn>>

\* the rules in the order stated: the phrases of each, its status, its type
RuleTable ==
    << [raw |-> TRUE, phrases |-> {<<ThaiEnterCorrectIdPassword>>}, status |-> 401, type |-> "auth"],
       [raw |-> TRUE, phrases |-> {<<ThaiTooManyFailedAttempts>>}, status |-> 429, type |-> "auth"],
       [raw |-> FALSE, phrases |-> {<<"invalid", "username", "or", "password">>, <<"login", "failed">>},
        status |-> 401, type |-> "auth"],
       [raw |-> FALSE, phrases |-> {<<"session", "expired">>, <<"please", "login", "again">>},
        status |-> 401, type |-> "session"],
       [raw |-> FALSE, phrases |-> {<<"no", "authentication", "cookies">>, <<"no", "credentials", "available">>},
        status |-> 401, type |-> "auth"],
       [raw |-> FALSE, phrases |-> {<<"timeout">>, <<"network">>, <<"econnrefused">>},
        status |-> 503, type |-> "network"],
       [raw |-> FALSE, phrases |-> {<<"unexpected", "response", "status">>, <<"failed", "to">>},
        status |-> 502, type |-> "server"] >>

RulesMatching(msg) ==
    {i \in 1..Len(RuleTable) :
        \E ph \in RuleTable[i].phrases :
            includes(IF RuleTable[i].raw THEN msg ELSE toLowerCase(msg), ph)}

FirstRule(msg) == CHOOSE i \in RulesMatching(msg) : \A j \in RulesMatching(msg) : i <= j

\* C13: handleApiError returns an ApiError unchanged, and gives every other
\* error the status and type of the first rule of the stated order that its
\* message matches, unknown 500 when none does.
C13_FirstMatchingRule ==
    fn.pc = "classified"
    => IF fn.err.name = "ApiError" THEN fn.cls = fn.err
       ELSE IF fn.err.name = "value" \/ RulesMatching(fn.err.message) = {}
         THEN fn.cls.statusCode = 500 /\ fn.cls.errorType = "unknown"
       ELSE /\ fn.cls.statusCode = RuleTable[FirstRule(fn.err.message)].status
            /\ fn.cls.errorType = RuleTable[FirstRule(fn.err.message)].type

C13_Witness ==
    /\ fn.pc = "classified"
    /\ fn.err.name = "Error"
    /\ {3, 4} \subseteq RulesMatching(fn.err.message)
    /\ fn.cls.errorType = "auth"

\* C14: an error whose message is the message of a classified error is given
\* the same type and status as that error.
C14_ClassificationIdempotent ==
    fn.pc = "reclassified"
    => /\ fn.again.errorType = fn.cls.errorType
       /\ fn.again.statusCode = fn.cls.statusCode

\* ------------------------------------------------------- serve.ts (server)
ErrorTypes == {"validation", "auth", "session", "network", "server", "unknown"}

\* a request: its method, what its path names, whether its body parses as
\* JSON, and what the route handler does when it is called
Methods == {"GET", "POST", "OPTIONS"}
Paths == {"/", "/stats", "getRoute", "postRoute", "unknown"}

MsgRequired == <<"Username", "and", "password", "are", "required">>
MsgJsonToken == <<"Unexpected", "token", "in", "JSON">>
MsgJsonParse == <<"JSON", "Parse", "error">>

Returns == [ok |-> TRUE, error |-> NoError]
Throws(error) == [ok |-> FALSE, error |-> error]
HandlerOutcomes ==
    {Returns} \cup {Throws(handleApiError(Error(m))) : m \in {MsgLoginEmpty, MsgAutoReloginDisabled,
                                                             MsgTimeout, MsgJsonToken}}
              \cup {Throws(ApiError(MsgRequired, 400, "validation"))}

Requests ==
    [method : Methods, path : Paths, jsonBody : BOOLEAN, handler : HandlerOutcomes]

\* routes.find((r) => r.path === pathname && r.method === req.method)
routeFound(req) ==
    \/ req.path = "getRoute" /\ req.method = "GET"
    \/ req.path = "postRoute" /\ req.method = "POST"

\* jsonResponse / sendJSON of data
jsonResponse(status) == [status |-> status, error |-> Null, errorType |-> ""]

\* errorResponse / sendError: errorType is set when the argument is truthy
errorResponse(message, status, errorType) ==
    [status |-> status, error |-> Some(message), errorType |-> errorType]

\* the catch of a route call, without the test for "JSON"
routeCatch(error) ==
    IF error.name = "ApiError"
      THEN errorResponse(error.message, error.statusCode, error.errorType)
      ELSE errorResponse(error.message, 500, "")

\* what the try block of a POST route throws, if anything: JSON parsing
\* fails before the handler is called
postThrows(req) ==
    IF ~req.jsonBody THEN Throws([Error(MsgJsonParse) EXCEPT !.name = "SyntaxError"])
    ELSE req.handler

handleRequestBun(req) ==
    IF req.method = "OPTIONS" THEN jsonResponse(200)
    ELSE IF req.path = "/" THEN jsonResponse(200)
    ELSE IF req.path = "/stats" /\ req.method = "GET" THEN jsonResponse(200)
    ELSE IF routeFound(req)
      THEN IF req.method = "POST"
             THEN LET out == postThrows(req)
                  IN  IF out.ok THEN jsonResponse(200)
                      ELSE IF includes(out.error.message, <<"JSON">>)
                        THEN errorResponse(<<"Invalid", "JSON", "body">>, 400, "")
                      ELSE routeCatch(out.error)
             ELSE IF req.handler.ok THEN jsonResponse(200) ELSE routeCatch(req.handler.error)
    ELSE errorResponse(<<"Endpoint", "not", "found">>, 404, "")

handleRequestNode(req) ==
    IF req.method = "OPTIONS" THEN jsonResponse(200)
    ELSE IF req.path = "/" THEN jsonResponse(200)
    ELSE IF req.path = "/stats" /\ req.method = "GET" THEN jsonResponse(200)
    ELSE IF routeFound(req)
      THEN IF req.method = "POST"
             THEN LET out == postThrows(req)
                  IN  IF out.ok THEN jsonResponse(200) ELSE routeCatch(out.error)
             ELSE IF req.handler.ok THEN jsonResponse(200) ELSE routeCatch(req.handler.error)
    ELSE errorResponse(<<"Endpoint", "not", "found">>, 404, "")

InitServe ==
    /\ now = 0
    /\ mgrs = ServerWorld.mgrs
    /\ instances = ServerWorld.instances
    /\ runs = [r \in Runs |-> FreeRun]
    /\ callers = [c \in Callers |-> IdleCaller]
    /\ installs = [m \in 1..Len(ServerWorld.mgrs) |-> NeverInstalled]
    /\ fn \in {[pc |-> "received", req |-> q, runtime |-> "", response |-> jsonResponse(0)] :
                  q \in Requests}

\* Bun.serve({ fetch: handleRequest })
ServeBun ==
    /\ fn.pc = "received"
    /\ fn' = [fn EXCEPT !.pc = "responded", !.runtime = "Bun", !.response = handleRequestBun(fn.req)]
    /\ UNCHANGED vars0

\* createServer((req, res) => handleRequest(req, res))
ServeNode ==
    /\ fn.pc = "received"
    /\ fn' = [fn EXCEPT !.pc = "responded", !.runtime = "Node", !.response = handleRequestNode(fn.req)]
    /\ UNCHANGED vars0

ServeNext == ServeBun \/ ServeNode

SpecServe == InitServe /\ [][ServeNext]_<<vars0, fn>>

\* C15: every response with an error status, of either runtime, carries an
\* error message and an errorType of the six categories.
C15_ErrorResponsesClassified ==
    (fn.pc = "responded" /\ fn.response.status >= 400)
    => /\ ~IsNull(fn.response.error)
       /\ fn.response.errorType \in ErrorTypes

(***************************************************************************)
(* mergeCookies (cookie-manager.ts).  A cookie text is the sequence of its *)
(* ";"-separated segments, each trimmed and split at "=": "a=2; Path=/"    *)
(* is << <<"a","2">>, <<"Path","/">> >>, and the empty string is << >>.    *)
(* A cookie set is null, one text (a string) or a list of texts.  The      *)
(* header the function returns is the text whose segments are the values   *)
(* of the map, joined by "; ".                                             *)
(***************************************************************************)
MaxSetLen == 2

OneCookie(text) == [array |-> FALSE, items |-> <<text>>]
ManyCookies(texts) == [array |-> TRUE, items |-> texts]

CookieTexts ==
    { << <<"a", "1">> >>,
      << <<"a", "2">>, <<"Path", "/">> >>,
      << <<"b", "1">> >>,
      << >> }

CookieLists == UNION {[1..n -> CookieTexts] : n \in 0..MaxSetLen}

CookieSets ==
    {Null} \cup {OneCookie(t) : t \in CookieTexts}
           \cup {ManyCookies(l) : l \in CookieLists}

\* allCookies: null, undefined and "" are skipped, a list is spread, a
\* string is pushed whole.
RECURSIVE allCookies(_)
allCookies(cookieSets) ==
    IF cookieSets = <<>> THEN <<>>
    ELSE LET cookies == Head(cookieSets)
             rest == allCookies(Tail(cookieSets))
         IN  IF IsNull(cookies) THEN rest
             ELSE IF cookies.array THEN cookies.items \o rest
             ELSE IF cookies.items[1] = <<>> THEN rest
             ELSE cookies.items \o rest

\* cookie.split(";")[0]?.trim()
firstPart(cookie) == IF cookie = <<>> THEN <<>> ELSE cookie[1]

\* const [name] = parts.split("=")
cookieName(parts) == IF parts = <<>> THEN "" ELSE parts[1]

\* Map.prototype.set keeps the position of a key it already holds.
\* The mutant moves an overwritten key to the end.
MapSet_MoveToEnd(map, name, parts) ==
    SelectSeq(map, LAMBDA e : e.name # name)
        \o <<[name |-> name, parts |-> parts]>>

MapSet(map, name, parts) ==
    IF \E i \in 1..Len(map) : map[i].name = name
    THEN [i \in 1..Len(map) |->
            IF map[i].name = name THEN [name |-> name, parts |-> parts]
            ELSE map[i]]
    ELSE Append(map, [name |-> name, parts |-> parts])

RECURSIVE cookieMap(_, _)
cookieMap(map, cookies) ==
    IF cookies = <<>> THEN map
    ELSE LET parts == firstPart(Head(cookies))
             name == cookieName(parts)
         IN  IF parts = <<>> \/ name = ""
             THEN cookieMap(map, Tail(cookies))
             ELSE cookieMap(MapSet(map, name, parts), Tail(cookies))

mergeCookies(cookieSets) ==
    LET map == cookieMap(<<>>, allCookies(cookieSets))
    IN  [i \in 1..Len(map) |-> map[i].parts]

InitCookies ==
    /\ now = 0
    /\ mgrs = ServerWorld.mgrs
    /\ instances = ServerWorld.instances
    /\ runs = [r \in Runs |-> FreeRun]
    /\ callers = [c \in Callers |-> IdleCaller]
    /\ installs = [m \in 1..Len(ServerWorld.mgrs) |-> NeverInstalled]
    /\ \E sets \in {<<s>> : s \in CookieSets} \cup (CookieSets \X CookieSets) :
          fn = [op |-> "mergeCookies", pc |-> "call", sets |-> sets,
                result |-> Null]

MergeCookies ==
    /\ ~IsNull(fn)
    /\ fn.op = "mergeCookies"
    /\ fn.pc = "call"
    /\ fn' = [fn EXCEPT !.pc = "done",
                        !.result = Some(mergeCookies(fn.sets))]
    /\ UNCHANGED vars0

CookiesNext == MergeCookies

SpecCookies == InitCookies /\ [][CookiesNext]_<<vars0, fn>>

\* The cookies the sets define, in the order given: every text of every
\* set that has a named first segment.
Defined(sets) ==
    SelectSeq(allCookies(sets),
              LAMBDA c : c # <<>> /\ c[1] # <<>> /\ c[1][1] # "")

FirstAt(cs, n) == CHOOSE i \in 1..Len(cs) :
    /\ cs[i][1][1] = n
    /\ \A j \in 1..(i - 1) : cs[j][1][1] # n

LastAt(cs, n) == CHOOSE i \in 1..Len(cs) :
    /\ cs[i][1][1] = n
    /\ \A j \in (i + 1)..Len(cs) : cs[j][1][1] # n

\* C16: the merged header holds each cookie name exactly once, with the
\* name=value of the last cookie that defines the name, the names in
\* order of their first occurrence; mergeCookies(["a=1"], ["a=2","b=1"])
\* is "a=2; b=1".
C16_MergeByName ==
    (~IsNull(fn) /\ fn.op = "mergeCookies" /\ fn.pc = "done") =>
        LET cs == Defined(fn.sets)
            names == {cs[i][1][1] : i \in 1..Len(cs)}
            header == fn.result[1]
        IN  /\ {header[i][1] : i \in 1..Len(header)} = names
            /\ Len(header) = Cardinality(names)
            /\ \A i \in 1..Len(header) :
                  header[i] = cs[LastAt(cs, header[i][1])][1]
            /\ \A i, j \in 1..Len(header) :
                  i < j => FirstAt(cs, header[i][1]) < FirstAt(cs, header[j][1])
            /\ fn.sets = <<ManyCookies(<< << <<"a", "1">> >> >>),
                           ManyCookies(<< << <<"a", "2">>, <<"Path", "/">> >>,
                                          << <<"b", "1">> >> >>)>>
               => header = << <<"a", "2">>, <<"b", "1">> >>

C16_Witness ==
    /\ ~IsNull(fn)
    /\ fn.op = "mergeCookies"
    /\ fn.pc = "done"
    /\ fn.sets = <<ManyCookies(<< << <<"a", "1">> >> >>),
                   ManyCookies(<< << <<"a", "2">>, <<"Path", "/">> >>,
                                  << <<"b", "1">> >> >>)>>
    /\ fn.result = Some(<< <<"a", "2">>, <<"b", "1">> >>)

(***************************************************************************)
(* parseSetCookieHeader (cookie-manager.ts).  A response has the two       *)
(* header fields the function reads and the rawHeaders array; a field is   *)
(* undefined (Null), a string or a list of strings.  Cookies are opaque    *)
(* strings here, "" the empty string.                                      *)
(***************************************************************************)
HeaderValues ==
    { Null, OneCookie(""), OneCookie("a=1"),
      ManyCookies(<<>>), ManyCookies(<<"a=1">>), ManyCookies(<<"a=1", "b=2">>) }

RawHeaderValues ==
    {Null} \cup
    { Some(raw) : raw \in
        { <<>>,
          <<"Content-Type", "text/html">>,
          <<"Set-Cookie", "a=1">>,
          <<"Content-Type", "text/html", "set-cookie", "a=1", "SET-COOKIE", "b=2">>,
          <<"Set-Cookie", "">>,
          <<"Content-Type", "text/html", "Set-Cookie">> } }

Responses ==
    [lower : HeaderValues, upper : HeaderValues, rawHeaders : RawHeaderValues]

\* if (response.headers[...]): undefined and "" are falsy, a list is not.
TruthyHeader(v) == ~IsNull(v) /\ (v.array \/ v.items[1] # "")

\* Array.isArray(v) ? v : [v]
asArray(v) == v.items

\* for (let i = 0; i < rawHeaders.length - 1; i += 2), i counted from 1.
RECURSIVE rawLoop(_, _, _)
rawLoop(rawHeaders, i, cookieArray) ==
    IF i >= Len(rawHeaders) THEN cookieArray
    ELSE LET headerName == rawHeaders[i]
             headerValue == rawHeaders[i + 1]
         IN  rawLoop(rawHeaders, i + 2,
                     IF ToLowerWord(headerName) = "set-cookie" /\ headerValue # ""
                     THEN Append(cookieArray, headerValue)
                     ELSE cookieArray)

parseSetCookieHeader(response) ==
    LET cookieArray ==
            IF TruthyHeader(response.lower) THEN asArray(response.lower)
            ELSE IF TruthyHeader(response.upper) THEN asArray(response.upper)
            ELSE IF ~IsNull(response.rawHeaders)
                 THEN rawLoop(response.rawHeaders[1], 1, <<>>)
            ELSE <<>>
    IN  IF Len(cookieArray) > 0 THEN Some(cookieArray) ELSE Null

InitParse ==
    /\ now = 0
    /\ mgrs = ServerWorld.mgrs
    /\ instances = ServerWorld.instances
    /\ runs = [r \in Runs |-> FreeRun]
    /\ callers = [c \in Callers |-> IdleCaller]
    /\ installs = [m \in 1..Len(ServerWorld.mgrs) |-> NeverInstalled]
    /\ \E response \in Responses :
          fn = [op |-> "parseSetCookieHeader", pc |-> "call",
                response |-> response, result |-> Null]

ParseSetCookieHeader ==
    /\ ~IsNull(fn)
    /\ fn.op = "parseSetCookieHeader"
    /\ fn.pc = "call"
    /\ fn' = [fn EXCEPT !.pc = "done",
                        !.result = Some(parseSetCookieHeader(fn.response))]
    /\ UNCHANGED vars0

ParseNext == ParseSetCookieHeader

SpecParse == InitParse /\ [][ParseNext]_<<vars0, fn>>

\* The cookies a header field carries: the non-empty string, or the
\* elements of the list.
FieldCookies(v) ==
    IF IsNull(v) THEN <<>>
    ELSE IF v.array THEN v.items
    ELSE IF v.items[1] = "" THEN <<>>
    ELSE v.items

\* The cookies rawHeaders carries: the non-empty values that follow a
\* set-cookie name (in any case) in the name/value pairs.
RawCookies(rawHeaders) ==
    IF IsNull(rawHeaders) THEN <<>>
    ELSE LET raw == rawHeaders[1]
             At(k) == raw[2 * k]
             pairs == {k \in 1..(Len(raw) \div 2) :
                          /\ ToLowerWord(raw[2 * k - 1]) = "set-cookie"
                          /\ raw[2 * k] # ""}
             RECURSIVE Collect(_)
             Collect(k) ==
                 IF k > Len(raw) \div 2 THEN <<>>
                 ELSE (IF k \in pairs THEN <<At(k)>> ELSE <<>>) \o Collect(k + 1)
         IN  Collect(1)

Carried(response) ==
    { cs \in { FieldCookies(response.lower), FieldCookies(response.upper),
               RawCookies(response.rawHeaders) } : cs # <<>> }

C18_LastValidatedMonotone ==
    [][\A m \in Mgrs :
          /\ now' >= now
          /\ (m \in 1..Len(mgrs') /\ ~IsNull(mgrs'[m].sessionData)) =>
                LET after == Get(mgrs'[m].sessionData).lastValidated
                IN  /\ after <= now'
                    /\ IsNull(SessionOf(m)) => after = now'
                    /\ ~IsNull(SessionOf(m)) =>
                          LET before == Get(SessionOf(m)).lastValidated
                          IN  /\ after >= before
                              /\ after # before => after = now']_vars

C18_Witness ==
    \E m \in Mgrs :
        /\ ~IsNull(SessionOf(m))
        /\ installs[m].touched
        /\ Get(SessionOf(m)).lastValidated > Get(SessionOf(m)).loginTime

\* ------------------------------------------------------ sessions and cookies
\* The cookie values setSession accepts (string | string[]), the empty
\* string and the empty list among them; a login function of the bus
\* client resolves with whatever truthy set-cookie value the response has,
\* and the empty list is truthy.
EmptyCookieVals == {CookieString(<<>>), CookieArray(<<>>)}
AnyCookieVals == SetCookieVals \cup EmptyCookieVals
AnyLoginFnResults == LoginFnResults \cup {Resolved(CookieArray(<<>>))}

CookielessNext ==
    \/ \E c \in Callers : Return(c)
    \/ Tick
    \/ \E m \in Mgrs, cred \in StoredCreds, cookies \in AnyCookieVals, oc \in OneClickVals :
          SetSession(m, cred, cookies, oc)
    \/ \E m \in Mgrs : UpdateLastValidated(m)
    \/ \E c \in Callers, m \in Mgrs, args \in ArgCreds \cup {NoArgs} : EnsureLoggedIn(c, m, args)
    \/ \E r \in Runs, res \in AnyLoginFnResults : LoginFnSettle(r, res)

SpecCookieless == Init /\ [][CookielessNext]_vars

HoldsNoCookies(m) ==
    \/ IsNull(SessionOf(m))
    \/ Get(SessionOf(m)).cookies.items = <<>>

\* C19: a session that holds no cookies (no session data, the empty cookie
\* string or the empty cookie list) is never reported valid by
\* isSessionValid.
C19_NoCookiesNeverValid ==
    \A m \in Mgrs : HoldsNoCookies(m) => ~isSessionValid(mgrs[m], now)

\* ------------------------------------------------- refresh on successful use
\* a step in which the bus request of call c on manager m succeeds
BusSuccess(c, m) ==
    /\ callers[c].pc = "awaitBackend"
    /\ callers[c].op = "busAvailable"
    /\ callers[c].mgr = m
    /\ callers'[c].pc = "done"
    /\ callers'[c].outcome = "resolved"

\* C20: every successful authenticated bus operation refreshes the
\* session's lastValidated: after the step in which it succeeds the
\* session's lastValidated is the time of that step, so a session used
\* successfully more often than the validity duration never becomes stale.
C20_SuccessRefreshes ==
    [][\A c \in Callers, m \in Mgrs :
          (BusSuccess(c, m) /\ ~IsNull(mgrs'[m].sessionData))
          => /\ Get(mgrs'[m].sessionData).lastValidated = now'
             /\ isSessionValid(mgrs'[m], now')]_vars

(***************************************************************************)
(* Answers of the bus backend to an authenticated request (bus.api.ts).    *)
(* The transport accepts every status from 200 to 399 and follows no       *)
(* redirect; a reply is its status, its location header and what its body  *)
(* is: the data asked for, or the login page (which contains               *)
(* "userloginchk").                                                        *)
(***************************************************************************)
MsgSessionExpiredOrInvalid ==
    <<"Session", "expired", "or", "invalid", ".", "Please", "login", "again", ".">>
MsgSessionExpiredLoginPage ==
    <<"Session", "expired", "-", "received", "login", "page", "instead", "of",
      "schedule", "data">>
MsgUnexpectedStatus(status) == <<"Unexpected", "response", "status", ":", ToString(status)>>

ReplyData == [status |-> 200, location |-> "", body |-> "data"]
ReplyLanding == [status |-> 302, location |-> "/", body |-> ""]
ReplyLandingUrl == [status |-> 302, location |-> "https://cmrubus.cmru.ac.th/", body |-> ""]
ReplyElsewhere == [status |-> 302, location |-> "/users/login", body |-> ""]
ReplyLoginPage == [status |-> 200, location |-> "", body |-> "userloginchk"]
BackendReplies == {ReplyData, ReplyLanding, ReplyLandingUrl, ReplyElsewhere, ReplyLoginPage}

\* the replies that tell that the backend no longer knows the session
StaleReplies == {ReplyLanding, ReplyLandingUrl, ReplyLoginPage}

\* the checks a bus operation makes on the response: the error thrown, or
\* NoError when the response is returned
busResponseCheck(op, reply) ==
    IF reply.status \in {301, 302}
          /\ reply.location \in {"https://cmrubus.cmru.ac.th/", "/"}
      THEN Error(MsgSessionExpiredOrInvalid)
    ELSE IF reply.status # 200
      THEN Error(MsgUnexpectedStatus(reply.status))
    ELSE IF op \in {"busSchedule", "busValidate"} /\ reply.body = "userloginchk"
      THEN Error(MsgSessionExpiredLoginPage)
    ELSE NoError

\* getSchedule() without cookies, then handleApiError
BusGetSchedule(c, m) ==
    /\ mgrs[m].config.type = "bus"
    /\ Ensure(c, m, NoArgs, "busSchedule")

\* validateSession: false at once without a session or cookies, else
\* getScheduleRaw(cookies), which skips ensureAuthenticated
BusValidateSession(c, m) ==
    /\ CanCall(c)
    /\ mgrs[m].config.type = "bus"
    /\ LET cl == StartCall("busValidate", m)
       IN  callers' = [callers EXCEPT ![c] =
              IF ~hasSession(mgrs[m]) \/ IsNull(getCookies(mgrs[m]))
                THEN Finish(cl, "resolved", NoError)
                ELSE [cl EXCEPT !.pc = "awaitBackend", !.sent = TRUE]]
    /\ UNCHANGED <<now, mgrs, instances, runs, installs>>
    /\ UNCHANGED fn

\* the backend answers the request of call c.  A data request returns the
\* response or throws through handleApiError and leaves the manager alone.
\* validateSession refreshes lastValidated on success; in its catch it
\* calls clearSession when the message includes "Session expired" (an
\* error thrown there leaves the catch block) and otherwise returns false.
BackendAnswer(c, reply) ==
    /\ Quiet
    /\ callers[c].pc = "awaitBackend"
    /\ callers[c].op \in {"busAvailable", "busSchedule", "busValidate"}
    /\ LET m == callers[c].mgr
           error == busResponseCheck(callers[c].op, reply)
           expired == includes(error.message, <<"Session", "expired">>)
           w == clearSession(World, m, 1)
       IN  IF callers[c].op # "busValidate"
             THEN /\ callers' = [callers EXCEPT ![c] =
                        IF error = NoError THEN Finish(@, "resolved", NoError)
                        ELSE Finish(@, "rejected", handleApiError(error))]
                  /\ UNCHANGED <<mgrs, instances, installs>>
           ELSE IF error = NoError
             THEN /\ mgrs' = [mgrs EXCEPT ![m] = updateLastValidated(@, now)]
                  /\ installs' = [installs EXCEPT ![m].touched = @ \/ hasSession(mgrs[m])]
                  /\ callers' = [callers EXCEPT ![c] = Finish(@, "resolved", NoError)]
                  /\ UNCHANGED instances
           ELSE IF expired
             THEN /\ mgrs' = w.mgrs
                  /\ instances' = w.instances
                  /\ installs' = [installs EXCEPT ![m] = Uninstalled(@)]
                  /\ callers' = [callers EXCEPT ![c] =
                        IF w.threw
                          THEN Finish(@, "rejected", RangeError(MsgStackOverflow))
                          ELSE Finish(@, "resolved", NoError)]
           ELSE /\ callers' = [callers EXCEPT ![c] = Finish(@, "resolved", NoError)]
                /\ UNCHANGED <<mgrs, instances, installs>>
    /\ UNCHANGED <<now, runs>>
    /\ UNCHANGED fn

\* the bus client in use: logins (which succeed or fail at the backend),
\* re-logins that succeed, data requests, validateSession, and the
\* backend's answers
StaleNext ==
    \/ \E c \in Callers : Return(c)
    \/ Tick
    \/ \E c \in Callers, m \in Mgrs : BusGetAvailable(c, m)
    \/ \E c \in Callers, m \in Mgrs : BusGetSchedule(c, m)
    \/ \E c \in Callers, m \in Mgrs : BusValidateSession(c, m)
    \/ \E c \in Callers, reply \in BackendReplies : BackendAnswer(c, reply)
    \/ \E c \in Callers, m \in Mgrs, cred \in ArgCreds : BusLoginWith(c, m, cred)
    \/ \E r \in Runs, res \in {Resolved(cv) : cv \in LoginCookieVals} : LoginFnSettle(r, res)
    \/ \E r \in Runs, res \in GetSessionResults : GetSessionSettle(r, res)

SpecStale == Init /\ [][StaleNext]_vars

\* C21: when an authenticated bus operation (schedule, available buses)
\* gets a redirect to the landing page or the login page as body, the call
\* fails with an error of category session and the manager's session is
\* cleared by the time the failure reaches the caller.
C21_StaleReplyClearsSession ==
    [][\A c \in Callers, reply \in StaleReplies :
          (/\ callers[c].op \in {"busAvailable", "busSchedule"}
           /\ BackendAnswer(c, reply))
          => /\ callers'[c].outcome = "rejected"
             /\ callers'[c].error.errorType = "session"
             /\ IsNull(mgrs'[callers[c].mgr].sessionData)]_vars

\* a step in which call c starts an authenticated bus operation on m
BusOperationStarts(c, m) ==
    /\ callers[c].pc = "idle"
    /\ callers'[c].op \in {"busAvailable", "busSchedule"}
    /\ callers'[c].mgr = m

\* the session of m was installed and then cleared by validateSession, the
\* one step of this specification that clears a session
ClearedOnExpiry(m) ==
    /\ installs[m].ever
    /\ IsNull(SessionOf(m))
    /\ ~mgrs[m].isLoggingIn

\* C22: after a bus session has been cleared because expiry was detected,
\* the next authenticated bus operation starts a login run and awaits it,
\* instead of failing without a login attempt.
C22_ClearedThenFreshLogin ==
    [][\A c \in Callers, m \in Mgrs :
          (ClearedOnExpiry(m) /\ BusOperationStarts(c, m))
          => /\ mgrs'[m].isLoggingIn
             /\ callers'[c].pc = "awaitLogin"
             /\ callers'[c].started]_vars

\* ------------------------------------------------------------- bus loginWith
\* a step in which the getSession of loginWith run r returns a response
\* (check code 1, 2 or 3), so that loginWith returns successfully
LoginWithReturns(r) ==
    /\ runs[r].state = "running"
    /\ runs[r].via = "loginWith"
    /\ runs'[r].state = "resolved"

\* C23: whenever bus login()/loginWith() returns successfully, the manager
\* holds a session for the given credentials: isSessionValid is true and
\* getCookies is not null, the cookies being those of the response's
\* set-cookie when it carries any (and the bootstrap cookie otherwise).
C23_LoginInstallsSession ==
    [][\A r \in Runs :
          LoginWithReturns(r) =>
             LET m == runs[r].mgr
                 mgr == mgrs'[m]
             IN  /\ isSessionValid(mgr, now')
                 /\ ~IsNull(getCookies(mgr))
                 /\ getCredentials(mgr) =
                       Some([username |-> runs[r].username, password |-> runs[r].password])
                 /\ ~IsNull(runs'[r].result.cookies)
                    => getCookies(mgr) = runs'[r].result.cookies]_vars

(***************************************************************************)
(* Registrar login (reg.api.ts, class Reg).  fn holds the call: what the   *)
(* GET of the login page and the POST of validate.asp answer (a response,  *)
(* or Null when the transport throws), the session the manager held        *)
(* before, and how the call ended.                                         *)
(***************************************************************************)
MsgNoSessionCookies ==
    <<"Failed", "to", "obtain", "session", "cookies", "from", "login">>

RegMgr == CHOOSE m \in 1..Len(ServerWorld.mgrs) : ServerWorld.mgrs[m].config.type = "reg"

\* responses of the login page: none (the GET throws), without cookie, with
\* a cookie
PageOutcomes ==
    { Null,
      Some([lower |-> Null, upper |-> Null, rawHeaders |-> Null]),
      Some([lower |-> ManyCookies(<<"b=2">>), upper |-> Null, rawHeaders |-> Null]) }

ValidateOutcomes == {Null} \cup {Some(response) : response \in Responses}

\* getBuildKeyAndCookies: a failure is caught and gives no cookies
getBuildKeyAndCookies(page) ==
    IF IsNull(page) THEN Null ELSE parseSetCookieHeader(page[1])

\* login: the manager after the call and the error thrown (NoError when the
\* response is returned)
regLogin(mgr, credentials, page, validate, t) ==
    LET initialCookies == getBuildKeyAndCookies(page)
        sessionCookies == parseSetCookieHeader(validate[1])
    IN  IF IsNull(validate)
          THEN [mgr |-> mgr, error |-> Error(MsgNetworkError)]
        ELSE IF ~IsNull(sessionCookies) /\ Len(sessionCookies[1]) > 0
          THEN [mgr |-> setSession(mgr, credentials.username, credentials.password,
                                   CookieArray(sessionCookies[1]), "undefined", t),
                error |-> NoError]
        ELSE IF ~IsNull(initialCookies)
          THEN [mgr |-> setSession(mgr, credentials.username, credentials.password,
                                   CookieArray(initialCookies[1]), "undefined", t),
                error |-> NoError]
        ELSE [mgr |-> mgr, error |-> Error(MsgNoSessionCookies)]

InitRegLogin ==
    /\ now = 0
    /\ instances = ServerWorld.instances
    /\ runs = [r \in Runs |-> FreeRun]
    /\ callers = [c \in Callers |-> IdleCaller]
    /\ \E held \in BOOLEAN, page \in PageOutcomes, validate \in ValidateOutcomes :
          /\ mgrs = IF held
                      THEN [ServerWorld.mgrs EXCEPT ![RegMgr] =
                              setSession(@, Alice.username, Alice.password,
                                         CookieArray(<<"SESS=a">>), "undefined", 0)]
                      ELSE ServerWorld.mgrs
          /\ installs = [m \in 1..Len(ServerWorld.mgrs) |->
                            IF held /\ m = RegMgr THEN Installed(0) ELSE NeverInstalled]
          /\ fn = [op |-> "regLogin", pc |-> "call", page |-> page,
                   validate |-> validate, before |-> mgrs[RegMgr].sessionData,
                   error |-> NoError]

RegLogin ==
    /\ ~IsNull(fn)
    /\ fn.op = "regLogin"
    /\ fn.pc = "call"
    /\ LET out == regLogin(mgrs[RegMgr], Bob, fn.page, fn.validate, now)
       IN  /\ mgrs' = [mgrs EXCEPT ![RegMgr] = out.mgr]
           /\ installs' = IF out.error = NoError
                            THEN [installs EXCEPT ![RegMgr] = Installed(now)]
                            ELSE installs
           /\ fn' = [fn EXCEPT !.pc = IF out.error = NoError THEN "returned" ELSE "threw",
                               !.error = out.error]
    /\ UNCHANGED <<now, instances, runs, callers>>

\* the clock moves before the call, so that a session held before is older
RegLoginTick ==
    /\ ~IsNull(fn)
    /\ fn.pc = "call"
    /\ now + TickMs <= MaxTicks * TickMs
    /\ now' = now + TickMs
    /\ UNCHANGED <<mgrs, instances, runs, callers, installs, fn>>

RegLoginNext == RegLogin \/ RegLoginTick

SpecRegLogin == InitRegLogin /\ [][RegLoginNext]_<<vars0, fn>>

\* the cookies a response carries, in the first of the three shapes that
\* carries any
CookiesOf(outcome) ==
    IF IsNull(outcome) THEN <<>>
    ELSE LET response == outcome[1]
         IN  IF FieldCookies(response.lower) # <<>> THEN FieldCookies(response.lower)
             ELSE IF FieldCookies(response.upper) # <<>> THEN FieldCookies(response.upper)
             ELSE RawCookies(response.rawHeaders)

Answers(reply) == [ok |-> TRUE, reply |-> reply, error |-> NoError]
Breaks(error) == [ok |-> FALSE, reply |-> ReplyData, error |-> error]

ReplyMoved == [status |-> 301, location |-> "/users/login", body |-> ""]

\* answers to the booking, unconfirm, confirm and delete requests
ActionAnswers ==
    {Answers(r) : r \in {ReplyData, ReplyLanding, ReplyMoved}}
        \cup {Breaks(e) : e \in TransportErrors}

\* answers to the schedule request
ScheduleAnswers ==
    {Answers(r) : r \in BackendReplies} \cup {Breaks(e) : e \in TransportErrors}

MsgFailedTo(what, status) == <<"Failed", "to">> \o what \o <<":", ToString(status)>>
MsgNotFoundForConfirm ==
    <<"Booking", "succeeded", "but", "could", "not", "find", "reservation",
      "for", "auto-confirmation">>
MsgBookingSucceededBut(inner) ==
    <<"Booking", "succeeded", "but", "auto-confirmation", "failed", ":">> \o inner
MsgUnconfirmSucceededBut(inner) ==
    <<"Unconfirm", "succeeded", "but", "auto-deletion", "failed", ":">> \o inner

\* client.get answered by a: the error the operation throws for it, given
\* the statuses it accepts
statusCheck(a, accepted, what) ==
    IF ~a.ok THEN a.error
    ELSE IF a.reply.status \notin accepted THEN Error(MsgFailedTo(what, a.reply.status))
    ELSE NoError

\* getSchedule(cookies): its first getScheduleRaw
scheduleCheck(a) ==
    IF ~a.ok THEN a.error ELSE busResponseCheck("busSchedule", a.reply)

\* bookBus with oneClick: the error thrown, NoError when it returns
bookBus(primary, schedule, found, secondary) ==
    LET first == statusCheck(primary, {200}, <<"book", "bus">>)
        inner == IF scheduleCheck(schedule) # NoError THEN scheduleCheck(schedule)
                 ELSE IF ~found THEN Error(MsgNotFoundForConfirm)
                 ELSE statusCheck(secondary, {200}, <<"confirm", "reservation">>)
    IN  IF first # NoError THEN first
        ELSE IF inner # NoError THEN Error(MsgBookingSucceededBut(inner.message))
        ELSE NoError

\* unconfirmReservation with oneClick
unconfirmReservation(primary, schedule, found, secondary) ==
    LET first == statusCheck(primary, {200, 302}, <<"unconfirm", "reservation">>)
        inner == IF scheduleCheck(schedule) # NoError THEN scheduleCheck(schedule)
                 ELSE IF ~found THEN NoError
                 ELSE statusCheck(secondary, {200, 302, 307}, <<"delete", "reservation">>)
    IN  IF first # NoError THEN first
        ELSE IF inner # NoError THEN Error(MsgUnconfirmSucceededBut(inner.message))
        ELSE NoError

\* the route: what the caller is told, NoError for { success: true }
oneClickRoute(op, primary, schedule, found, secondary) ==
    LET error == IF op = "bookBus" THEN bookBus(primary, schedule, found, secondary)
                 ELSE unconfirmReservation(primary, schedule, found, secondary)
    IN  IF error = NoError THEN NoError ELSE handleApiError(error)

InitOneClick ==
    /\ now = 0
    /\ mgrs = ServerWorld.mgrs
    /\ instances = ServerWorld.instances
    /\ runs = [r \in Runs |-> FreeRun]
    /\ callers = [c \in Callers |-> IdleCaller]
    /\ installs = [m \in 1..Len(ServerWorld.mgrs) |-> NeverInstalled]
    /\ \E op \in {"bookBus", "unconfirm"}, primary \in ActionAnswers,
          schedule \in ScheduleAnswers, found \in BOOLEAN, secondary \in ActionAnswers :
          fn = [op |-> op, pc |-> "call", primary |-> primary, schedule |-> schedule,
                found |-> found, secondary |-> secondary, report |-> NoError]

\* POST /bus/book with oneClick
BookBus ==
    /\ ~IsNull(fn)
    /\ fn.op = "bookBus"
    /\ fn.pc = "call"
    /\ fn' = [fn EXCEPT !.pc = "done",
                        !.report = oneClickRoute("bookBus", fn.primary, fn.schedule,
                                                 fn.found, fn.secondary)]
    /\ UNCHANGED vars0

\* POST /bus/unconfirm with oneClick
UnconfirmReservation ==
    /\ ~IsNull(fn)
    /\ fn.op = "unconfirm"
    /\ fn.pc = "call"
    /\ fn' = [fn EXCEPT !.pc = "done",
                        !.report = oneClickRoute("unconfirm", fn.primary, fn.schedule,
                                                 fn.found, fn.secondary)]
    /\ UNCHANGED vars0

OneClickNext == BookBus \/ UnconfirmReservation

SpecOneClick == InitOneClick /\ [][OneClickNext]_<<vars0, fn>>

\* the primary request of the operation failed under this answer
PrimaryFailed(op, primary) ==
    \/ ~primary.ok
    \/ primary.reply.status \notin (IF op = "bookBus" THEN {200} ELSE {200, 302})

\* every report of the route for a call whose primary request failed
PrimaryFailureReports(op) ==
    { oneClickRoute(op, primary, schedule, found, secondary) :
        primary \in {a \in ActionAnswers : PrimaryFailed(op, a)},
        schedule \in ScheduleAnswers, found \in BOOLEAN, secondary \in ActionAnswers }

\* C25: when the primary request succeeded and only the secondary step
\* (schedule lookup, auto-confirm, auto-delete) failed, whatever its cause,
\* the error reported differs in category or message from every error
\* reported when the primary request failed.
C25_PartialFailureDistinct ==
    (~IsNull(fn) /\ fn.op \in {"bookBus", "unconfirm"} /\ fn.pc = "done"
     /\ ~PrimaryFailed(fn.op, fn.primary) /\ fn.report # NoError)
    => \A r \in PrimaryFailureReports(fn.op) :
          r.errorType # fn.report.errorType \/ r.message # fn.report.message

\* ---------------------------------------------------- registrar after expiry
\* a step in which call c starts a registrar data operation on manager m
RegOperationStarts(c, m) ==
    /\ callers[c].pc = "idle"
    /\ callers'[c].op = "regStudent"
    /\ callers'[c].mgr = m

\* C26: a registrar data operation started when the session's validity
\* window has lapsed fails at once with an error that tells the caller to
\* log in again, and sends no request with the stale cookies.
C26_RegExpiredFailsUnsent ==
    [][\A c \in Callers, m \in Mgrs :
          (/\ RegOperationStarts(c, m)
           /\ ~IsNull(SessionOf(m))
           /\ ~isSessionValid(mgrs[m], now))
          => /\ callers'[c].pc = "done"
             /\ callers'[c].outcome = "rejected"
             /\ ~callers'[c].sent
             /\ includes(toLowerCase(callers'[c].error.message), <<"login">>)]_vars

\* ------------------------------------------------- token-protected routes
\* serve.ts builds one bus client, so every route works on one manager
BusMgr == CHOOSE m \in 1..Len(ServerWorld.mgrs) : ServerWorld.mgrs[m].config.type = "bus"

MaxTokens == 3
ServerUsers == {Alice, Bob}

\* the session cookie the backend issues to a user at login
BackendCookies(username) ==
    CookieArray(<<IF username = "alice" THEN "SESS=a" ELSE "SESS=b">>)

\* how the backend answers the schedule request of validateSession
ValidateAnswers == {"ok", "expired", "down"}

\* generateToken / validateToken: storage maps the token to { username },
\* token i of fn.tokens was issued to user fn.tokens[i]
validateToken(tokens, token) ==
    IF token \in 1..Len(tokens) THEN Some([username |-> tokens[token]]) ELSE Null

\* busApi.validateSession() on the shared client: the world after it and
\* whether ensureValidSession lets the request through
validateSession(w, m, answer, t) ==
    IF ~hasSession(w.mgrs[m]) \/ IsNull(getCookies(w.mgrs[m]))
      THEN [w |-> w, valid |-> FALSE]
    ELSE IF answer = "ok"
      THEN [w |-> [w EXCEPT !.mgrs[m] = updateLastValidated(@, t)], valid |-> TRUE]
    ELSE IF answer = "expired"
      THEN [w |-> clearSession(w, m, 1), valid |-> FALSE]
    ELSE [w |-> w, valid |-> FALSE]

\* fn: tokens, the tokens issued so far; served, the protected request just
\* handled: the user of its token and, when it was executed, the user whose
\* backend session (cookies) the request to the backend carried
InitTokens ==
    /\ now = 0
    /\ mgrs = ServerWorld.mgrs
    /\ instances = ServerWorld.instances
    /\ runs = [r \in Runs |-> FreeRun]
    /\ callers = [c \in Callers |-> IdleCaller]
    /\ installs = [m \in 1..Len(ServerWorld.mgrs) |-> NeverInstalled]
    /\ fn = [op |-> "routes", tokens |-> <<>>, served |-> Null]

\* POST /bus/login: busApi.login, then generateToken(username); a rejected
\* login throws before the token is made
PostBusLogin(cred, accepted) ==
    /\ fn.op = "routes"
    /\ Len(fn.tokens) < MaxTokens
    /\ IF accepted
         THEN /\ mgrs' = [mgrs EXCEPT ![BusMgr] =
                    setSession(@, cred.username, cred.password,
                               BackendCookies(cred.username), "undefined", now)]
              /\ installs' = [installs EXCEPT ![BusMgr] = Installed(now)]
              /\ fn' = [fn EXCEPT !.tokens = Append(@, cred.username), !.served = Null]
         ELSE /\ fn' = [fn EXCEPT !.served = Null]
              /\ UNCHANGED <<mgrs, installs>>
    /\ UNCHANGED <<now, instances, runs, callers>>

\* GET /bus/schedule with a bearer token: authenticateRequest,
\* ensureValidSession(auth.username), busApi.getSchedule(undefined, ...)
\* whose request carries sessionManager.getCookies()
GetBusSchedule(token, answer) ==
    /\ fn.op = "routes"
    /\ LET auth == validateToken(fn.tokens, token)
           v == validateSession(World, BusMgr, answer, now)
           session == Get(v.w.mgrs[BusMgr].sessionData)
       IN  IF IsNull(auth)
             THEN /\ fn' = [fn EXCEPT !.served = Null]
                  /\ UNCHANGED <<mgrs, instances, installs>>
             ELSE /\ mgrs' = v.w.mgrs
                  /\ instances' = v.w.instances
                  /\ installs' = [installs EXCEPT ![BusMgr] =
                        IF v.valid THEN [@ EXCEPT !.touched = TRUE]
                        ELSE IF IsNull(v.w.mgrs[BusMgr].sessionData) THEN Uninstalled(@)
                        ELSE @]
                  /\ fn' = [fn EXCEPT !.served =
                        Some([user |-> Get(auth).username,
                              executed |-> v.valid,
                              sessionOf |-> IF v.valid THEN session.username ELSE "",
                              cookies |-> IF v.valid THEN session.cookies
                                          ELSE CookieArray(<<>>)])]
    /\ UNCHANGED <<now, runs, callers>>

TokensTick ==
    /\ Tick
    /\ fn.op = "routes"

TokensNext ==
    \/ \E cred \in ServerUsers, accepted \in BOOLEAN : PostBusLogin(cred, accepted)
    \/ \E token \in 1..(MaxTokens + 1), answer \in ValidateAnswers : GetBusSchedule(token, answer)
    \/ TokensTick

SpecTokens == InitTokens /\ [][TokensNext]_<<vars0, fn>>

\* C27: a token-protected bus request presenting the token issued to user U
\* is executed only with the backend session of user U.
C27_TokenBoundToOwnSession ==
    (~IsNull(fn) /\ fn.op = "routes" /\ ~IsNull(fn.served) /\ Get(fn.served).executed)
    => /\ Get(fn.served).sessionOf = Get(fn.served).user
       /\ Get(fn.served).cookies = BackendCookies(Get(fn.served).user)

\* ------------------------------------------------------- the oneClick flag
\* oneClick?: boolean
OneClickFlags == {"undefined", "true", "false"}

\* this.sessionData?.oneClick || false
getOneClickEnabled(mgr) ==
    IF IsNull(mgr.sessionData) THEN FALSE
    ELSE Get(mgr.sessionData).oneClick = "true"

setOneClickEnabled(mgr, enabled) ==
    IF ~IsNull(mgr.sessionData)
      THEN [mgr EXCEPT !.sessionData =
              Some([Get(mgr.sessionData) EXCEPT
                      !.oneClick = IF enabled THEN "true" ELSE "false"])]
      ELSE mgr

SetOneClickEnabled(m, enabled) ==
    /\ Quiet
    /\ mgrs' = [mgrs EXCEPT ![m] = setOneClickEnabled(@, enabled)]
    /\ UNCHANGED <<now, instances, runs, callers, installs>>
    /\ UNCHANGED fn

\* sessions installed with any oneClick argument, the flag set afterwards,
\* bus operations and the re-logins they start
FlagNext ==
    \/ \E c \in Callers : Return(c)
    \/ Tick
    \/ \E m \in Mgrs, cred \in StoredCreds, cookies \in SetCookieVals, oc \in OneClickFlags :
          SetSession(m, cred, cookies, oc)
    \/ \E m \in Mgrs, enabled \in BOOLEAN : SetOneClickEnabled(m, enabled)
    \/ \E c \in Callers, m \in Mgrs : BusGetAvailable(c, m)
    \/ \E r \in Runs, res \in LoginFnResults : LoginFnSettle(r, res)

SpecFlag == Init /\ [][FlagNext]_vars

\* a step in which the re-login run r of ensureLoggedIn succeeds on a
\* manager that held a session
ReloginSucceeds(r) ==
    /\ runs[r].state = "running"
    /\ runs[r].via = "ensureLoggedIn"
    /\ runs'[r].state = "resolved"
    /\ hasSession(mgrs[runs[r].mgr])

SessionKeys == {"default", "bus_default", "reg_default"}

\* config?: SessionConfig of a direct getInstance call: absent or given
NoConfig == [f \in {} |-> 0]
InstanceConfigs == {NoConfig, BusConfig, RegConfig}

\* fn: the static call just made, its key and the manager it returned
InitFactory ==
    /\ now = 0
    /\ mgrs = <<>>
    /\ instances = [k \in SessionKeys |-> 0]
    /\ runs = [r \in Runs |-> FreeRun]
    /\ callers = [c \in Callers |-> IdleCaller]
    /\ installs = <<>>
    /\ fn = [op |-> "factory", call |-> "", key |-> "", returned |-> 0]

GetInstance(sessionKey, config) ==
    /\ fn.op = "factory"
    /\ LET w == getInstance(World, sessionKey, config)
       IN  /\ mgrs' = w.mgrs
           /\ instances' = w.instances
           /\ installs' = IF Len(w.mgrs) > Len(mgrs) THEN Append(installs, NeverInstalled)
                          ELSE installs
           /\ fn' = [fn EXCEPT !.call = "getInstance", !.key = sessionKey,
                               !.returned = w.instances[sessionKey]]
    /\ UNCHANGED <<now, runs, callers>>

ForBusApi(sessionKey) ==
    /\ fn.op = "factory"
    /\ LET w == forBusApi(World, sessionKey)
       IN  /\ mgrs' = w.mgrs
           /\ instances' = w.instances
           /\ installs' = IF Len(w.mgrs) > Len(mgrs) THEN Append(installs, NeverInstalled)
                          ELSE installs
           /\ fn' = [fn EXCEPT !.call = "forBusApi", !.key = sessionKey,
                               !.returned = w.instances[sessionKey]]
    /\ UNCHANGED <<now, runs, callers>>

ForRegApi(sessionKey) ==
    /\ fn.op = "factory"
    /\ LET w == forRegApi(World, sessionKey)
       IN  /\ mgrs' = w.mgrs
           /\ instances' = w.instances
           /\ installs' = IF Len(w.mgrs) > Len(mgrs) THEN Append(installs, NeverInstalled)
                          ELSE installs
           /\ fn' = [fn EXCEPT !.call = "forRegApi", !.key = sessionKey,
                               !.returned = w.instances[sessionKey]]
    /\ UNCHANGED <<now, runs, callers>>

FactoryNext ==
    \/ \E k \in SessionKeys, config \in InstanceConfigs : GetInstance(k, config)
    \/ \E k \in SessionKeys : ForBusApi(k)
    \/ \E k \in SessionKeys : ForRegApi(k)

SpecFactory == InitFactory /\ [][FactoryNext]_<<vars0, fn>>

MaxChildren == 3

\* constructor: the defaults of ProcessManagerConfig
maxRestarts == 10
crashThreshold == 5
crashWindow == 300000

\* a ChildProcess: alive says the operating-system process runs, exit and
\* error that the event has been emitted, killed is ChildProcess.killed, and
\* restarts counts the restart timers set by handlers of this child's events
NewChild == [alive |-> TRUE, exit |-> FALSE, error |-> FALSE, killed |-> FALSE, restarts |-> 0]

\* fields of the ProcessManager, the children it has spawned and the number
\* of pending restart timers; process is the index of this.process, 0: null
NewProcessManager ==
    [op |-> "pm", children |-> <<>>, process |-> 0, restartCount |-> 0,
     crashTimes |-> <<>>, isShuttingDown |-> FALSE, timers |-> 0]

\* start(): spawn and install the handlers on the new child
start(pm) ==
    IF pm.isShuttingDown THEN pm
    ELSE [pm EXCEPT !.children = Append(@, NewChild), !.process = Len(pm.children) + 1]

\* stop(): kill(SIGTERM) sets killed when the signal reached a running child
stop(pm) ==
    LET p == pm.process
    IN  IF p # 0 /\ ~pm.children[p].killed
          THEN [pm EXCEPT !.isShuttingDown = TRUE,
                          !.children[p].killed = pm.children[p].alive]
          ELSE [pm EXCEPT !.isShuttingDown = TRUE]

within(crashTimes, t) == SelectSeq(crashTimes, LAMBDA time : t - time < crashWindow)

\* handleCrash() called by a handler of child k at time t
handleCrash(pm, k, t) ==
    IF pm.isShuttingDown THEN pm
    ELSE LET pm1 == [pm EXCEPT !.crashTimes = within(Append(@, t), t)]
         IN  IF Len(pm1.crashTimes) >= crashThreshold THEN stop(pm1)
             ELSE IF pm1.restartCount >= maxRestarts THEN stop(pm1)
             ELSE [pm1 EXCEPT !.restartCount = @ + 1, !.timers = @ + 1,
                              !.children[k].restarts = @ + 1]

InitPm ==
    /\ now = 0
    /\ mgrs = ServerWorld.mgrs
    /\ instances = ServerWorld.instances
    /\ runs = [r \in Runs |-> FreeRun]
    /\ callers = [c \in Callers |-> IdleCaller]
    /\ installs = [m \in 1..Len(ServerWorld.mgrs) |-> NeverInstalled]
    /\ fn = NewProcessManager

\* the first start() of the manager
PmStart ==
    /\ fn.op = "pm"
    /\ fn.children = <<>>
    /\ fn' = start(fn)
    /\ UNCHANGED vars0

\* stop(), also what the shutdown signals call
PmStop ==
    /\ fn.op = "pm"
    /\ ~fn.isShuttingDown
    /\ fn' = stop(fn)
    /\ UNCHANGED vars0

\* child k emits 'exit': the process is gone; the handler returns during
\* shutdown and calls handleCrash otherwise
ChildExit(k) ==
    /\ fn.op = "pm"
    /\ k \in 1..Len(fn.children)
    /\ ~fn.children[k].exit
    /\ LET pm == [fn EXCEPT !.children[k].alive = FALSE, !.children[k].exit = TRUE]
       IN  fn' = IF pm.isShuttingDown THEN pm ELSE handleCrash(pm, k, now)
    /\ UNCHANGED vars0

\* child k emits 'error': it could not be spawned, or during shutdown it
\* could not be killed and goes on running; the handler calls handleCrash
ChildError(k) ==
    /\ fn.op = "pm"
    /\ k \in 1..Len(fn.children)
    /\ ~fn.children[k].error
    /\ LET pm == [fn EXCEPT !.children[k].alive = @ /\ fn.isShuttingDown,
                            !.children[k].error = TRUE]
       IN  fn' = handleCrash(pm, k, now)
    /\ UNCHANGED vars0

\* a restart timer fires: if (!this.isShuttingDown) this.start()
RestartTimer ==
    /\ fn.op = "pm"
    /\ fn.timers > 0
    /\ Len(fn.children) < MaxChildren
    /\ fn' = start([fn EXCEPT !.timers = @ - 1])
    /\ UNCHANGED vars0

PmTick ==
    /\ fn.op = "pm"
    /\ now + TickMs <= MaxTicks * TickMs
    /\ now' = now + TickMs
    /\ UNCHANGED <<mgrs, instances, runs, callers, installs, fn>>

PmNext ==
    \/ PmStart
    \/ PmStop
    \/ \E k \in 1..MaxChildren : ChildExit(k)
    \/ \E k \in 1..MaxChildren : ChildError(k)
    \/ RestartTimer
    \/ PmTick

SpecPm == InitPm /\ [][PmNext]_<<vars0, fn>>

AliveChildren == {k \in 1..Len(fn.children) : fn.children[k].alive}

\* C30: ProcessManager keeps at most one server child process alive and
\* schedules at most one restart per child failure, whatever the order of
\* the child's 'exit' and 'error' events and also when both fire.
C30_OneChildOneRestart ==
    (~IsNull(fn) /\ fn.op = "pm")
    => /\ Cardinality(AliveChildren) <= 1
       /\ \A k \in 1..Len(fn.children) : fn.children[k].restarts <= 1

====
